---- MODULE Spec2Model ----
(***************************************************************************)
(* Species-speed analytics pipeline of the Biodiversity Hub                *)
(* (src/app/species-speed/animal-speed-graph.tsx): CSV row validation,     *)
(* grouped aggregation, and the load / commit / redraw lifecycle of the    *)
(* AnimalSpeedGraph component.                                             *)
(*                                                                         *)
(* Text is held as a sequence of one-character strings so that trim and    *)
(* toLowerCase act on the characters.  Numbers are held in hundredths (the *)
(* JavaScript number 12.5 is the integer 1250, 0.05 is 5); NaN and         *)
(* Infinity are separate kinds of NumberValue.  Quotients are exact        *)
(* fractions.                                                              *)
(***************************************************************************)
EXTENDS Integers, Sequences, FiniteSets, TLC

\* ------------------------------------------------------------------------
\* Bounds of the model
\* ------------------------------------------------------------------------
\* Longest endangerment record set given to the aggregation.
MaxRecords == 3
\* Number of load cycles (runs of the load effect) a behaviour may start.
MaxCycles == 2
\* Number of times a render function is called on one container.
MaxDraws == 2
\* Longest weight record set given to the weight insight.
MaxWeightRecords == 4
\* Largest number of records of one status given to the endangerment insight.
MaxGroup == 6

\* ------------------------------------------------------------------------
\* Text
\* ------------------------------------------------------------------------
\* The value of a column the CSV header does not have (row.diet === undefined).
Undefined == <<"undefined">>

WhiteSpace == {" ", "\t"}

UpperCaseLetters == <<"A", "B", "C", "D", "E", "F", "G", "H", "I", "J", "K", "L", "M",
                      "N", "O", "P", "Q", "R", "S", "T", "U", "V", "W", "X", "Y", "Z">>

LowerCaseLetters == <<"a", "b", "c", "d", "e", "f", "g", "h", "i", "j", "k", "l", "m",
                      "n", "o", "p", "q", "r", "s", "t", "u", "v", "w", "x", "y", "z">>

DecimalDigits == <<"0", "1", "2", "3", "4", "5", "6", "7", "8", "9">>

RECURSIVE TrimStart(_)
TrimStart(s) ==
    IF s # <<>> /\ Head(s) \in WhiteSpace THEN TrimStart(Tail(s)) ELSE s

RECURSIVE TrimEnd(_)
TrimEnd(s) ==
    IF s # <<>> /\ s[Len(s)] \in WhiteSpace
    THEN TrimEnd(SubSeq(s, 1, Len(s) - 1))
    ELSE s

\* String.prototype.trim
Trim(s) == TrimEnd(TrimStart(s))

LowerChar(c) ==
    IF \E i \in 1..26 : UpperCaseLetters[i] = c
    THEN LowerCaseLetters[CHOOSE i \in 1..26 : UpperCaseLetters[i] = c]
    ELSE c

\* String.prototype.toLowerCase
ToLowerCase(s) == [i \in 1..Len(s) |-> LowerChar(s[i])]

\* ------------------------------------------------------------------------
\* Numbers
\* ------------------------------------------------------------------------
NaN == [k |-> "nan", v |-> 0]
Infinity == [k |-> "inf", v |-> 1]
Finite(n) == [k |-> "fin", v |-> n]

IsDigit(c) == \E i \in 1..10 : DecimalDigits[i] = c
DigitValue(c) == (CHOOSE i \in 1..10 : DecimalDigits[i] = c) - 1
AllDigits(s) == \A i \in 1..Len(s) : IsDigit(s[i])

RECURSIVE DigitsValue(_)
DigitsValue(s) ==
    IF s = <<>> THEN 0
    ELSE 10 * DigitsValue(SubSeq(s, 1, Len(s) - 1)) + DigitValue(s[Len(s)])

InfinityLiteral == <<"I", "n", "f", "i", "n", "i", "t", "y">>

\* An unsigned StrDecimalLiteral: digits, optionally a point and more digits,
\* with at least one digit in all.  The value is kept to two fractional digits.
UnsignedLiteral(s) ==
    IF s = InfinityLiteral THEN Infinity
    ELSE LET dots == {i \in 1..Len(s) : s[i] = "."}
         IN IF dots = {}
            THEN IF s # <<>> /\ AllDigits(s) THEN Finite(100 * DigitsValue(s)) ELSE NaN
            ELSE LET p == CHOOSE i \in dots : \A j \in dots : i <= j
                     whole == SubSeq(s, 1, p - 1)
                     frac == SubSeq(s, p + 1, Len(s))
                 IN IF AllDigits(whole) /\ AllDigits(frac) /\ Len(whole) + Len(frac) > 0
                    THEN Finite(100 * DigitsValue(whole)
                                + (IF Len(frac) >= 1 THEN 10 * DigitValue(frac[1]) ELSE 0)
                                + (IF Len(frac) >= 2 THEN DigitValue(frac[2]) ELSE 0))
                    ELSE NaN

Negate(n) == [k |-> n.k, v |-> 0 - n.v]

\* StringToNumber of ECMAScript: white space is stripped, the empty string is
\* +0, a signed decimal literal or Infinity is its value, anything else NaN.
StringToNumber(s) ==
    LET t == Trim(s)
    IN IF t = <<>> THEN Finite(0)
       ELSE IF Head(t) = "-" THEN Negate(UnsignedLiteral(Tail(t)))
       ELSE IF Head(t) = "+" THEN UnsignedLiteral(Tail(t))
       ELSE UnsignedLiteral(t)

\* Number(value) for a CSV field, which is a string or undefined.
Number(value) == IF value = Undefined THEN NaN ELSE StringToNumber(value)

\* Number.isFinite
IsFinite(n) == n.k = "fin"

\* ------------------------------------------------------------------------
\* Domain constants
\* ------------------------------------------------------------------------
Herbivore == <<"h", "e", "r", "b", "i", "v", "o", "r", "e">>
Omnivore == <<"o", "m", "n", "i", "v", "o", "r", "e">>
Carnivore == <<"c", "a", "r", "n", "i", "v", "o", "r", "e">>

DIET_ORDER == <<Herbivore, Omnivore, Carnivore>>

NotEvaluated == <<"N", "o", "t", " ", "E", "v", "a", "l", "u", "a", "t", "e", "d">>
DataDeficient == <<"D", "a", "t", "a", " ", "D", "e", "f", "i", "c", "i", "e", "n", "t">>
LeastConcern == <<"L", "e", "a", "s", "t", " ", "C", "o", "n", "c", "e", "r", "n">>
NearThreatened == <<"N", "e", "a", "r", " ", "T", "h", "r", "e", "a", "t", "e", "n", "e", "d">>
Vulnerable == <<"V", "u", "l", "n", "e", "r", "a", "b", "l", "e">>
Endangered == <<"E", "n", "d", "a", "n", "g", "e", "r", "e", "d">>
CriticallyEndangered == <<"C", "r", "i", "t", "i", "c", "a", "l", "l", "y", " ",
                          "E", "n", "d", "a", "n", "g", "e", "r", "e", "d">>
ExtinctInTheWild == <<"E", "x", "t", "i", "n", "c", "t", " ", "i", "n", " ", "t", "h", "e", " ",
                      "W", "i", "l", "d">>
Extinct == <<"E", "x", "t", "i", "n", "c", "t">>

ENDANGERMENT_ORDER == <<NotEvaluated, DataDeficient, LeastConcern, NearThreatened, Vulnerable,
                        Endangered, CriticallyEndangered, ExtinctInTheWild, Extinct>>

\* Ordered palette from lower concern tones to higher concern tones.
ENDANGERMENT_COLOR_RANGE == <<"#94a3b8", "#60a5fa", "#22c55e", "#84cc16", "#eab308",
                              "#f97316", "#ef4444", "#be123c", "#7f1d1d">>

\* Array.prototype.includes
Includes(arr, value) == \E i \in 1..Len(arr) : arr[i] = value

isDiet(value) == Includes(DIET_ORDER, value)

isEndangermentStatus(value) == Includes(ENDANGERMENT_ORDER, value)

\* ------------------------------------------------------------------------
\* Row transforms (the callbacks given to csv()); Null drops the row
\* ------------------------------------------------------------------------
Null == [dropped |-> TRUE]

\* row.field?.trim() ?? ""
TrimmedField(value) == IF value = Undefined THEN <<>> ELSE Trim(value)

\* The diet transform without toLowerCase.
DietRowTransformCaseSensitive(row) ==
    LET name == TrimmedField(row.name)
        speed == Number(row.speed)
        rawDiet == TrimmedField(row.third)
    IN IF name = <<>> \/ ~IsFinite(speed) \/ ~isDiet(rawDiet)
       THEN Null
       ELSE [name |-> name, speed |-> speed.v, diet |-> rawDiet]

DietRowTransform(row) ==
    LET name == TrimmedField(row.name)
        speed == Number(row.speed)
        rawDiet == IF row.third = Undefined THEN <<>> ELSE ToLowerCase(Trim(row.third))
    IN IF name = <<>> \/ ~IsFinite(speed) \/ ~isDiet(rawDiet)
       THEN Null
       ELSE [name |-> name, speed |-> speed.v, diet |-> rawDiet]

\* The weight transform without the bodyMass <= 0 test.
WeightRowTransformAnyMass(row) ==
    LET name == TrimmedField(row.name)
        speed == Number(row.speed)
        bodyMass == Number(row.third)
    IN IF name = <<>> \/ ~IsFinite(speed) \/ ~IsFinite(bodyMass)
       THEN Null
       ELSE [name |-> name, speed |-> speed.v, bodyMass |-> bodyMass.v]

\* The weight transform (lines 697-706).
WeightRowTransform(row) ==
    LET name == TrimmedField(row.name)
        speed == Number(row.speed)
        bodyMass == Number(row.third)
    IN IF name = <<>> \/ ~IsFinite(speed) \/ ~IsFinite(bodyMass) \/ bodyMass.v <= 0
       THEN Null
       ELSE [name |-> name, speed |-> speed.v, bodyMass |-> bodyMass.v]

EndangermentRowTransform(row) ==
    LET name == TrimmedField(row.name)
        speed == Number(row.speed)
        status == TrimmedField(row.third)
    IN IF name = <<>> \/ ~IsFinite(speed) \/ ~isEndangermentStatus(status)
       THEN Null
       ELSE [name |-> name, speed |-> speed.v, endangerment |-> status]

Datasets == {"diet", "weight", "endangerment"}

RowTransform(dataset, row) ==
    CASE dataset = "diet" -> DietRowTransform(row)
      [] dataset = "weight" -> WeightRowTransform(row)
      [] dataset = "endangerment" -> EndangermentRowTransform(row)

\* csv(url, transform): the transformed rows, without the dropped ones.
RECURSIVE ParseCsv(_, _)
ParseCsv(dataset, rows) ==
    IF rows = <<>> THEN <<>>
    ELSE LET parsed == RowTransform(dataset, Head(rows))
         IN IF parsed = Null
            THEN ParseCsv(dataset, Tail(rows))
            ELSE <<parsed>> \o ParseCsv(dataset, Tail(rows))

\* ------------------------------------------------------------------------
\* Aggregation of the endangerment chart
\* ------------------------------------------------------------------------
Abs(n) == IF n < 0 THEN 0 - n ELSE n

RECURSIVE GCD(_, _)
GCD(a, b) == IF b = 0 THEN a ELSE GCD(b, a % b)

\* The quotient sum / count as a reduced fraction (count > 0).
Quotient(sum, count) ==
    LET g == GCD(Abs(sum), count)
    IN [num |-> sum \div g, den |-> count \div g]

EmptyMap == [status \in {} |-> 0]

\* An aggregation whose running sum is overwritten by each record's speed.
RECURSIVE AggregateByStatusLastSpeed(_, _)
AggregateByStatusLastSpeed(data, aggregates) ==
    IF data = <<>> THEN aggregates
    ELSE LET datum == Head(data)
             next == IF datum.endangerment \in DOMAIN aggregates
                     THEN [aggregates EXCEPT ![datum.endangerment] =
                              [sum |-> datum.speed, count |-> @.count + 1]]
                     ELSE aggregates @@ (datum.endangerment :> [sum |-> datum.speed, count |-> 1])
         IN AggregateByStatusLastSpeed(Tail(data), next)

\* data.forEach over the Map of running sums and counts.
RECURSIVE AggregateByStatus(_, _)
AggregateByStatus(data, aggregates) ==
    IF data = <<>> THEN aggregates
    ELSE LET datum == Head(data)
             next == IF datum.endangerment \in DOMAIN aggregates
                     THEN [aggregates EXCEPT ![datum.endangerment] =
                              [sum |-> @.sum + datum.speed, count |-> @.count + 1]]
                     ELSE aggregates @@ (datum.endangerment :> [sum |-> datum.speed, count |-> 1])
         IN AggregateByStatus(Tail(data), next)

\* Array.prototype.map
MapSeq(arr, F(_)) == [i \in 1..Len(arr) |-> F(arr[i])]

\* Array.prototype.indexOf, 1-based, 0 when absent.
FirstIndex(arr, P(_)) ==
    IF \E i \in 1..Len(arr) : P(arr[i])
    THEN CHOOSE i \in 1..Len(arr) : P(arr[i]) /\ \A j \in 1..(i - 1) : ~P(arr[j])
    ELSE 0

\* Chart rows built by iterating the Map, which is in insertion order.
ChartRowOrderInsertion(data, aggregates) ==
    LET firsts == {i \in 1..Len(data) :
                      FirstIndex(data, LAMBDA r : r.endangerment = data[i].endangerment) = i}
        kept == SelectSeq([i \in 1..Len(data) |-> i], LAMBDA i : i \in firsts)
    IN [k \in 1..Len(kept) |-> data[kept[k]].endangerment]

\* The key order the chart rows are built in.
ChartRowOrder(data, aggregates) ==
    SelectSeq(ENDANGERMENT_ORDER, LAMBDA status : status \in DOMAIN aggregates)

\* chartData of renderSpeedVsEndangerment.
EndangermentChartData(data) ==
    LET aggregates == AggregateByStatus(data, EmptyMap)
    IN MapSeq(ChartRowOrder(data, aggregates),
              LAMBDA status : [status |-> status,
                               averageSpeed |-> Quotient(aggregates[status].sum,
                                                         aggregates[status].count),
                               count |-> aggregates[status].count])

\* The domain of the band scale x.
EndangermentXDomain(chartData) == MapSeq(chartData, LAMBDA datum : datum.status)

\* ------------------------------------------------------------------------
\* Chart rendering: what a render function leaves in its container.  A
\* container has its laid-out width, its own text and its child elements;
\* the only children the render functions make are svg roots.  The nicing of
\* the scales and the pixel positions are not part of the model.
\* ------------------------------------------------------------------------
\* A container that has not been laid out and holds nothing.
EmptyContainer == [clientWidth |-> 0, textContent |-> "", children |-> <<>>]

\* A render function that leaves the previous content in place.
ClearContainerKeep(container) == container

\* container.innerHTML = ""
ClearContainer(container) == [container EXCEPT !.textContent = "", !.children = <<>>]

\* container.textContent = text: the text replaces every child.
SetTextContent(container, text) == [container EXCEPT !.textContent = text, !.children = <<>>]

\* select(container).append("svg") with everything drawn into it.
AppendSvg(container, svg) == [container EXCEPT !.children = Append(@, svg)]

getChartWidth(container, minWidth) ==
    IF container.clientWidth > minWidth THEN container.clientWidth ELSE minWidth

\* The jitter is a fixed function of its two arguments (a hash of index + 1
\* scaled by spread); its value is held as the pair it is a function of.
deterministicJitter(index, spread) == [seed |-> index + 1, spread |-> spread]

RECURSIVE SumSpeed(_)
SumSpeed(rows) == IF rows = <<>> THEN 0 ELSE Head(rows).speed + SumSpeed(Tail(rows))

\* summaries of renderSpeedVsDiet: one row per diet of DIET_ORDER.
DietChartSummaries(data) ==
    MapSeq(DIET_ORDER,
           LAMBDA diet :
              LET rows == SelectSeq(data, LAMBDA datum : datum.diet = diet)
                  totalSpeed == SumSpeed(rows)
              IN [diet |-> diet,
                  averageSpeed |-> IF Len(rows) # 0 THEN Quotient(totalSpeed, Len(rows))
                                   ELSE Quotient(0, 1),
                  count |-> Len(rows)])

\* max(data, (datum) => datum.speed) of a non-empty record set.
MaxSpeed(data) ==
    LET i == CHOOSE i \in 1..Len(data) : \A j \in 1..Len(data) : data[j].speed <= data[i].speed
    IN data[i].speed

\* An upper end without the floor at 1.
SpeedYMaxNoFloor(data) == Quotient(11 * MaxSpeed(data), 10)

\* Math.max(maxSpeed * 1.1, 1), speeds in hundredths.
SpeedYMax(data) ==
    LET top == MaxSpeed(data)
    IN IF 11 * top > 1000 THEN Quotient(11 * top, 10) ELSE Quotient(100, 1)

\* The circles of the diet chart: the band of the record's diet, its speed,
\* and the jitter of its index (index 0 for the first record).
DietPoints(data, bandwidth) ==
    [i \in 1..Len(data) |->
        [band |-> data[i].diet, cy |-> data[i].speed,
         jitter |-> deterministicJitter(i - 1, Quotient(bandwidth.num * 62, bandwidth.den * 100))]]

renderSpeedVsDiet(container, data) ==
    LET cleared == ClearContainer(container)
    IN IF Len(data) = 0
       THEN SetTextContent(cleared, "No valid speed vs diet data available.")
       ELSE LET width == getChartWidth(cleared, 760)
                innerWidth == width - 70 - 180
                \* band scale of three bands with padding 0.25: step = range / 3.25
                bandwidth == Quotient(innerWidth * 3, 13)
            IN AppendSvg(cleared,
                         [width |-> width,
                          xDomain |-> DIET_ORDER,
                          yDomain |-> <<Quotient(0, 1), SpeedYMax(data)>>,
                          bars |-> DietChartSummaries(data),
                          points |-> DietPoints(data, bandwidth)])

\* A log domain whose upper end is the largest mass even when that is not
\* above the lower end.
WeightXDomainNoWidening(data) ==
    LET masses == {data[i].bodyMass : i \in 1..Len(data)}
        least == CHOOSE m \in masses : \A n \in masses : m <= n
        minMass == IF least > 10 THEN least ELSE 10
        maxMass == CHOOSE m \in masses : \A n \in masses : n <= m
    IN <<minMass, maxMass>>

\* minMass and safeMaxMass of renderSpeedVsWeight, masses in hundredths.
WeightXDomain(data) ==
    LET masses == {data[i].bodyMass : i \in 1..Len(data)}
        least == CHOOSE m \in masses : \A n \in masses : m <= n
        minMass == IF least > 10 THEN least ELSE 10
        maxMass == CHOOSE m \in masses : \A n \in masses : n <= m
        safeMaxMass == IF maxMass > minMass THEN maxMass ELSE minMass * 10
    IN <<minMass, safeMaxMass>>

\* scaleLog().domain(domain).nice(): the lower end goes down to a power of
\* ten and the upper end up to one (in hundredths, 1 is 0.01).
NiceLogDomain(domain) ==
    LET powers == {10 ^ k : k \in 0..9}
        floor == CHOOSE p \in powers :
                    p <= domain[1] /\ \A q \in powers : q <= domain[1] => q <= p
        ceil == CHOOSE p \in powers :
                   p >= domain[2] /\ \A q \in powers : q >= domain[2] => q >= p
    IN <<floor, ceil>>

\* renderSpeedVsWeight without the fallback for an empty record set.
renderSpeedVsWeightNoFallback(container, data) ==
    LET cleared == ClearContainer(container)
        width == getChartWidth(cleared, 760)
    IN AppendSvg(cleared,
                 [width |-> width,
                  xDomain |-> IF Len(data) = 0 THEN <<>> ELSE WeightXDomain(data),
                  xNice |-> IF Len(data) = 0 THEN <<>> ELSE NiceLogDomain(WeightXDomain(data)),
                  yDomain |-> IF Len(data) = 0 THEN <<>>
                              ELSE <<Quotient(0, 1), SpeedYMax(data)>>,
                  bars |-> <<>>,
                  points |-> [i \in 1..Len(data) |->
                                 [cx |-> data[i].bodyMass, cy |-> data[i].speed]]])

renderSpeedVsWeight(container, data) ==
    LET cleared == ClearContainer(container)
    IN IF Len(data) = 0
       THEN SetTextContent(cleared, "No valid speed vs weight data available.")
       ELSE LET width == getChartWidth(cleared, 760)
            IN AppendSvg(cleared,
                         [width |-> width,
                          xDomain |-> WeightXDomain(data),
                          xNice |-> NiceLogDomain(WeightXDomain(data)),
                          yDomain |-> <<Quotient(0, 1), SpeedYMax(data)>>,
                          bars |-> <<>>,
                          points |-> [i \in 1..Len(data) |->
                                         [cx |-> data[i].bodyMass, cy |-> data[i].speed]]])

\* a < b for two fractions with positive denominators.
FractionLess(a, b) == a.num * b.den < b.num * a.den

\* Math.max(maxAverage * 1.12, 1) over the chart rows, speeds in hundredths.
AverageYMax(chartData) ==
    LET i == CHOOSE i \in 1..Len(chartData) :
                \A j \in 1..Len(chartData) :
                   ~FractionLess(chartData[i].averageSpeed, chartData[j].averageSpeed)
        top == chartData[i].averageSpeed
        scaled == Quotient(top.num * 112, top.den * 100)
    IN IF FractionLess(Quotient(100, 1), scaled) THEN scaled ELSE Quotient(100, 1)

\* scaleOrdinal().domain(domain).range(range) applied to a value of the
\* domain: the range entry at the value's position, the range repeating.
ScaleOrdinal(domain, range, value) ==
    LET i == CHOOSE i \in 1..Len(domain) : domain[i] = value
    IN range[((i - 1) % Len(range)) + 1]

\* A colour scale whose domain is the statuses that have a bar.
EndangermentColorAmongPresent(chartData, status) ==
    ScaleOrdinal(EndangermentXDomain(chartData), ENDANGERMENT_COLOR_RANGE, status)

\* color(datum.status) of renderSpeedVsEndangerment.
EndangermentColor(chartData, status) ==
    ScaleOrdinal(ENDANGERMENT_ORDER, ENDANGERMENT_COLOR_RANGE, status)

renderSpeedVsEndangerment(container, data) ==
    LET cleared == ClearContainer(container)
    IN IF Len(data) = 0
       THEN SetTextContent(cleared, "No valid speed vs endangerment data available.")
       ELSE LET width == getChartWidth(cleared, 860)
                chartData == EndangermentChartData(data)
            IN IF Len(chartData) = 0
               THEN SetTextContent(cleared, "No valid speed vs endangerment data available.")
               ELSE AppendSvg(cleared,
                              [width |-> width,
                               xDomain |-> EndangermentXDomain(chartData),
                               yDomain |-> <<Quotient(0, 1), AverageYMax(chartData)>>,
                               bars |-> chartData,
                               fills |-> MapSeq(chartData,
                                                LAMBDA datum :
                                                   EndangermentColor(chartData, datum.status)),
                               points |-> <<>>])

\* The render call of the redraw effect of a dataset.
RenderInto(container, dataset, data) ==
    CASE dataset = "diet" -> renderSpeedVsDiet(container, data)
      [] dataset = "weight" -> renderSpeedVsWeight(container, data)
      [] dataset = "endangerment" -> renderSpeedVsEndangerment(container, data)

\* What a render function leaves in a container that held nothing.
Render(dataset, data) == RenderInto(EmptyContainer, dataset, data)

\* ------------------------------------------------------------------------
\* binary64 arithmetic, for the one place of the insights where the rounding
\* of a sum and of a mean decides a branch (the zero tests of
\* pearsonCorrelation).  A natural number of any size is the sequence of its
\* bits, least significant first; a positive binary64 value is a 53-bit
\* mantissa and the exponent of its last bit.  Only values that are not
\* negative, and far from the ends of the exponent range, are handled.
\* ------------------------------------------------------------------------
RECURSIVE NatBits(_)
NatBits(n) == IF n = 0 THEN <<>> ELSE <<n % 2>> \o NatBits(n \div 2)

\* Bit i of a, 0 above its top bit.
BitAt(a, i) == IF i <= Len(a) THEN a[i] ELSE 0

\* The top zero bits removed.
StripTop(a) ==
    LET ones == {i \in 1..Len(a) : a[i] = 1}
    IN IF ones = {} THEN <<>>
       ELSE SubSeq(a, 1, CHOOSE i \in ones : \A j \in ones : j <= i)

\* a + b: there is a carry into bit i when, at the highest bit below i where
\* a and b agree, both are 1.
AddBits(a, b) ==
    LET length == (IF Len(a) > Len(b) THEN Len(a) ELSE Len(b)) + 1
        agree == {j \in 1..length : BitAt(a, j) = BitAt(b, j)}
        carry(i) == LET below == {j \in agree : j < i}
                    IN IF below = {} THEN 0
                       ELSE BitAt(a, CHOOSE j \in below : \A k \in below : k <= j)
    IN StripTop([i \in 1..length |-> (BitAt(a, i) + BitAt(b, i) + carry(i)) % 2])

ShiftLeft(a, k) == IF a = <<>> THEN <<>> ELSE [i \in 1..k |-> 0] \o a

\* The number whose bits are given (a few bits only).
RECURSIVE BitsValue(_)
BitsValue(bits) == IF bits = <<>> THEN 0 ELSE Head(bits) + 2 * BitsValue(Tail(bits))

\* Long division of a by the small number n with the remainder rem carried
\* in, from the top down, up to eight bits at a time.
RECURSIVE DivBits(_, _, _)
DivBits(a, n, rem) ==
    IF a = <<>> THEN [q |-> <<>>, rem |-> rem]
    ELSE LET width == ((Len(a) - 1) % 8) + 1
             current == rem * 2^width + BitsValue(SubSeq(a, Len(a) - width + 1, Len(a)))
             below == DivBits(SubSeq(a, 1, Len(a) - width), n, current % n)
         IN [q |-> below.q \o [i \in 1..width |-> ((current \div n) \div 2^(i - 1)) % 2],
             rem |-> below.rem]

Binary64Zero == [mantissa |-> <<>>, exponent |-> 0]

\* Round to nearest, ties to even: the value bits * 2^exponent, plus a
\* non-zero part below the last bit when sticky, as a binary64.
RoundToBinary64(bits, exponent, sticky) ==
    LET length == Len(bits)
    IN IF length <= 53
       THEN [mantissa |-> [i \in 1..(53 - length) |-> 0] \o bits,
             exponent |-> exponent - (53 - length)]
       ELSE LET dropped == length - 53
                kept == SubSeq(bits, dropped + 1, length)
                below == sticky \/ \E i \in 1..(dropped - 1) : bits[i] = 1
                up == bits[dropped] = 1 /\ (below \/ kept[1] = 1)
                rounded == IF up THEN AddBits(kept, <<1>>) ELSE kept
            IN IF Len(rounded) = 54
               THEN [mantissa |-> Tail(rounded), exponent |-> exponent + dropped + 1]
               ELSE [mantissa |-> rounded, exponent |-> exponent + dropped]

\* The Number value of a decimal literal with two fractional digits.
Binary64FromHundredths(n) ==
    IF n = 0 THEN Binary64Zero
    ELSE LET division == DivBits(ShiftLeft(NatBits(n), 62), 100, 0)
         IN RoundToBinary64(StripTop(division.q), -62, division.rem # 0)

\* a + b
Binary64Add(a, b) ==
    IF a = Binary64Zero THEN b
    ELSE IF b = Binary64Zero THEN a
    ELSE LET low == IF a.exponent < b.exponent THEN a.exponent ELSE b.exponent
         IN RoundToBinary64(AddBits(ShiftLeft(a.mantissa, a.exponent - low),
                                    ShiftLeft(b.mantissa, b.exponent - low)),
                            low, FALSE)

\* a / n for a sample size n
Binary64DivideBy(a, n) ==
    IF a = Binary64Zero THEN Binary64Zero
    ELSE LET division == DivBits(ShiftLeft(a.mantissa, 8), n, 0)
         IN RoundToBinary64(StripTop(division.q), a.exponent - 8, division.rem # 0)

\* values.reduce((sum, value) => sum + value, 0)
RECURSIVE Binary64Sum(_, _)
Binary64Sum(values, sum) ==
    IF values = <<>> THEN sum
    ELSE Binary64Sum(Tail(values), Binary64Add(sum, Binary64FromHundredths(Head(values))))

\* ------------------------------------------------------------------------
\* Insights: the analysisPoints memo of the component.  A point is held as
\* the values its sentence is built from.  Means and the gap are exact
\* fractions; the formatting of numbers (toFixed) is not part of the model.
\* ------------------------------------------------------------------------
calculateMeanSpeed(rows) == Quotient(SumSpeed(rows), Len(rows))

\* a - b for two fractions
FractionMinus(a, b) == Quotient(a.num * b.den - b.num * a.den, a.den * b.den)

\* A sort by ascending mean.
RECURSIVE SortedBySpeedAscending(_, _)
SortedBySpeedAscending(summaries, sorted) ==
    IF summaries = <<>> THEN sorted
    ELSE LET row == Head(summaries)
             ahead == Cardinality({i \in 1..Len(sorted) :
                                      ~FractionLess(row.averageSpeed, sorted[i].averageSpeed)})
         IN SortedBySpeedAscending(Tail(summaries),
                                   SubSeq(sorted, 1, ahead) \o <<row>>
                                      \o SubSeq(sorted, ahead + 1, Len(sorted)))

\* [...summaries].sort((a, b) => b.averageSpeed - a.averageSpeed): descending,
\* rows of equal mean in the order they had (the sort is stable).
RECURSIVE SortedBySpeed(_, _)
SortedBySpeed(summaries, sorted) ==
    IF summaries = <<>> THEN sorted
    ELSE LET row == Head(summaries)
             ahead == Cardinality({i \in 1..Len(sorted) :
                                      ~FractionLess(sorted[i].averageSpeed, row.averageSpeed)})
         IN SortedBySpeed(Tail(summaries),
                          SubSeq(sorted, 1, ahead) \o <<row>>
                             \o SubSeq(sorted, ahead + 1, Len(sorted)))

\* dietSummaries of analysisPoints.
DietInsightSummaries(data) ==
    SelectSeq(MapSeq(DIET_ORDER,
                     LAMBDA diet :
                        LET rows == SelectSeq(data, LAMBDA datum : datum.diet = diet)
                        IN [diet |-> diet,
                            count |-> Len(rows),
                            averageSpeed |-> IF Len(rows) # 0 THEN calculateMeanSpeed(rows)
                                             ELSE Quotient(0, 1)]),
              LAMBDA summary : summary.count > 0)

\* The diet branch emitting for a single diet as well.
DietInsightAnyCount(data) ==
    IF Len(data) # 0
    THEN LET sortedBySpeed == SortedBySpeed(DietInsightSummaries(data), <<>>)
             fastestDiet == sortedBySpeed[1]
             slowestDiet == sortedBySpeed[Len(sortedBySpeed)]
         IN << [kind |-> "Diet", fastest |-> fastestDiet, slowest |-> slowestDiet,
                speedGap |-> FractionMinus(fastestDiet.averageSpeed,
                                           slowestDiet.averageSpeed)] >>
    ELSE <<>>

\* The diet branch of analysisPoints: the points it pushes.
DietInsight(data) ==
    IF Len(data) # 0
    THEN LET dietSummaries == DietInsightSummaries(data)
         IN IF Len(dietSummaries) >= 2
            THEN LET sortedBySpeed == SortedBySpeed(dietSummaries, <<>>)
                     fastestDiet == sortedBySpeed[1]
                     slowestDiet == sortedBySpeed[Len(sortedBySpeed)]
                 IN << [kind |-> "Diet", fastest |-> fastestDiet, slowest |-> slowestDiet,
                        speedGap |-> FractionMinus(fastestDiet.averageSpeed,
                                                   slowestDiet.averageSpeed)] >>
            ELSE <<>>
    ELSE <<>>

\* Array.prototype.reduce without an initial value: the first record is the
\* first best, the others are compared with the best so far in order.
RECURSIVE FastestFrom(_, _)
FastestFrom(rest, currentBest) ==
    IF rest = <<>> THEN currentBest
    ELSE FastestFrom(Tail(rest),
                     IF Head(rest).speed > currentBest.speed THEN Head(rest) ELSE currentBest)

\* A reduce that replaces the best so far on an equal speed too: the last of
\* the fastest records.
fastestSpeciesLastWins(weightData) ==
    weightData[CHOOSE i \in 1..Len(weightData) :
                  /\ \A j \in 1..Len(weightData) : weightData[j].speed <= weightData[i].speed
                  /\ \A j \in (i + 1)..Len(weightData) : weightData[j].speed < weightData[i].speed]

fastestSpecies(weightData) == FastestFrom(Tail(weightData), Head(weightData))

RECURSIVE LightestFrom(_, _)
LightestFrom(rest, currentLightest) ==
    IF rest = <<>> THEN currentLightest
    ELSE LightestFrom(Tail(rest),
                      IF Head(rest).bodyMass < currentLightest.bodyMass THEN Head(rest)
                      ELSE currentLightest)

lightestSpecies(weightData) == LightestFrom(Tail(weightData), Head(weightData))

RECURSIVE HeaviestFrom(_, _)
HeaviestFrom(rest, currentHeaviest) ==
    IF rest = <<>> THEN currentHeaviest
    ELSE HeaviestFrom(Tail(rest),
                      IF Head(rest).bodyMass > currentHeaviest.bodyMass THEN Head(rest)
                      ELSE currentHeaviest)

heaviestSpecies(weightData) == HeaviestFrom(Tail(weightData), Head(weightData))

\* Math.log10 of a mass that is a power of ten, where it is an integer; in
\* hundredths like every number.  Masses are in hundredths of a kilogram.
Log10(bodyMass) == 100 * ((CHOOSE k \in 0..9 : bodyMass = 10^k) - 2)

RECURSIVE SumSeq(_)
SumSeq(values) == IF values = <<>> THEN 0 ELSE Head(values) + SumSeq(Tail(values))

RECURSIVE GCDSeq(_)
GCDSeq(values) == IF values = <<>> THEN 0 ELSE GCD(Abs(Head(values)), GCDSeq(Tail(values)))

\* The values minus their mean, times a positive factor that keeps them whole
\* and small (the correlation does not change with the scale of a variable).
Centered(values) ==
    LET total == SumSeq(values)
        whole == [i \in 1..Len(values) |-> Len(values) * values[i] - total]
        factor == GCDSeq(whole)
    IN IF factor = 0 THEN whole ELSE [i \in 1..Len(values) |-> whole[i] \div factor]

\* The sum of the squares of (value - mean) as the code computes it is 0
\* exactly when every value equals the computed mean, the rounded quotient of
\* the rounded sum.  Values that differ cannot all equal it.
VarianceIsZero(values) ==
    /\ \A i \in 1..Len(values) : values[i] = values[1]
    /\ LET mean == Binary64DivideBy(Binary64Sum(values, Binary64Zero), Len(values))
       IN Binary64FromHundredths(values[1]) = mean

NullCorrelation == [defined |-> FALSE, sign |-> 0, square |-> Quotient(0, 1)]

\* The coefficient is held as its sign and its square.  When the variances
\* pass the zero test only by the rounding of a mean, the coefficient is a
\* quotient of rounding residues, below 2^-40 in size, and is held as 0.
pearsonCorrelation(xValues, yValues) ==
    IF Len(xValues) # Len(yValues) \/ Len(xValues) < 2 THEN NullCorrelation
    ELSE LET sampleSize == Len(xValues)
             centeredX == Centered(xValues)
             centeredY == Centered(yValues)
             covariance == SumSeq([i \in 1..sampleSize |-> centeredX[i] * centeredY[i]])
             xVariance == SumSeq([i \in 1..sampleSize |-> centeredX[i] * centeredX[i]])
             yVariance == SumSeq([i \in 1..sampleSize |-> centeredY[i] * centeredY[i]])
         IN IF VarianceIsZero(xValues) \/ VarianceIsZero(yValues) THEN NullCorrelation
            ELSE [defined |-> TRUE,
                  sign |-> IF covariance > 0 THEN 1 ELSE IF covariance < 0 THEN -1 ELSE 0,
                  square |-> IF xVariance * yVariance = 0 THEN Quotient(0, 1)
                             ELSE Quotient(covariance * covariance, xVariance * yVariance)]

\* r > 0.2 and r < -0.2: the square of 0.2 is 1/25.
AboveFifth(r) == r.sign = 1 /\ 25 * r.square.num > r.square.den
BelowMinusFifth(r) == r.sign = -1 /\ 25 * r.square.num > r.square.den

\* The label with the two thresholds themselves counted as trends.
trendLabelInclusive(massSpeedCorrelation) ==
    IF ~massSpeedCorrelation.defined THEN "no measurable mass-speed trend"
    ELSE IF massSpeedCorrelation.sign = 1
            /\ 25 * massSpeedCorrelation.square.num >= massSpeedCorrelation.square.den
         THEN "a weak positive mass-speed trend"
    ELSE IF massSpeedCorrelation.sign = -1
            /\ 25 * massSpeedCorrelation.square.num >= massSpeedCorrelation.square.den
         THEN "a weak negative mass-speed trend"
    ELSE "a very weak mass-speed trend"

trendLabel(massSpeedCorrelation) ==
    IF ~massSpeedCorrelation.defined THEN "no measurable mass-speed trend"
    ELSE IF AboveFifth(massSpeedCorrelation) THEN "a weak positive mass-speed trend"
    ELSE IF BelowMinusFifth(massSpeedCorrelation) THEN "a weak negative mass-speed trend"
    ELSE "a very weak mass-speed trend"

\* " (r=... on log mass)" or the empty text.
correlationText(massSpeedCorrelation) ==
    IF ~massSpeedCorrelation.defined THEN [shown |-> FALSE, r |-> NullCorrelation]
    ELSE [shown |-> TRUE, r |-> massSpeedCorrelation]

massSpeedCorrelationOf(weightData) ==
    pearsonCorrelation([i \in 1..Len(weightData) |-> Log10(weightData[i].bodyMass)],
                       [i \in 1..Len(weightData) |-> weightData[i].speed])

\* The weight branch of analysisPoints.
WeightInsight(weightData) ==
    IF Len(weightData) >= 2
    THEN LET massSpeedCorrelation == massSpeedCorrelationOf(weightData)
         IN << [kind |-> "Weight",
                lightest |-> lightestSpecies(weightData),
                heaviest |-> heaviestSpecies(weightData),
                trendLabel |-> trendLabel(massSpeedCorrelation),
                correlationText |-> correlationText(massSpeedCorrelation),
                fastest |-> fastestSpecies(weightData)] >>
    ELSE <<>>

\* statusSummaries of analysisPoints.
StatusInsightSummaries(data) ==
    SelectSeq(MapSeq(ENDANGERMENT_ORDER,
                     LAMBDA status :
                        LET rows == SelectSeq(data, LAMBDA datum : datum.endangerment = status)
                        IN [status |-> status,
                            count |-> Len(rows),
                            averageSpeed |-> IF Len(rows) # 0 THEN calculateMeanSpeed(rows)
                                             ELSE Quotient(0, 1)]),
              LAMBDA summary : summary.count > 0)

\* The summaries of every present status, whatever their counts.
analysisSummariesAll(statusSummaries) == statusSummaries

\* primarySummaries and analysisSummaries of analysisPoints.
analysisSummaries(statusSummaries) ==
    LET primarySummaries == SelectSeq(statusSummaries, LAMBDA summary : summary.count >= 5)
    IN IF Len(primarySummaries) >= 2 THEN primarySummaries ELSE statusSummaries

\* The endangerment branch of analysisPoints.
EndangermentInsight(data) ==
    IF Len(data) # 0
    THEN LET chosen == analysisSummaries(StatusInsightSummaries(data))
         IN IF Len(chosen) >= 2
            THEN LET sortedBySpeed == SortedBySpeed(chosen, <<>>)
                     fastestStatus == sortedBySpeed[1]
                     slowestStatus == sortedBySpeed[Len(sortedBySpeed)]
                 IN << [kind |-> "Endangerment",
                        fastest |-> fastestStatus, slowest |-> slowestStatus,
                        speedGap |-> FractionMinus(fastestStatus.averageSpeed,
                                                   slowestStatus.averageSpeed)] >>
            ELSE <<>>
    ELSE <<>>

\* The points of the memo, in the order they are pushed.
analysisPoints(diet, weight, endangerment) ==
    DietInsight(diet) \o WeightInsight(weight) \o EndangermentInsight(endangerment)

\* ------------------------------------------------------------------------
\* State
\* ------------------------------------------------------------------------
VARIABLES
    arg,              \* input of the function under test (function-level specifications)
    result,           \* its output
    called,           \* which function has been applied, "none" before
    mounted,          \* the AnimalSpeedGraph component is mounted
    strictPending,    \* the development double run of the effects is still due
    cycle,            \* number of runs of the load effect so far; the latest is the current one
    isCancelled,      \* the isCancelled flag of each run's closure
    fetch,            \* the csv() promise of each run and dataset
    join,             \* the Promise.all of each run
    loadPc,           \* where loadAllChartsData of each run stands
    outcome,          \* how loadAllChartsData of each run ended
    dietData,         \* useState slices
    weightData,
    endangermentData,
    loadingError,
    dataId,           \* identity of each data array: 0 the initial [], c the array of run c
    effectDeps,       \* the identity each redraw effect last ran with, -1 before its first run
    chart,            \* content of the three chart containers
    draws             \* number of render calls on each container since mount

pureVars == <<arg, result, called>>

lifeVars == <<mounted, strictPending, cycle, isCancelled, fetch, join, loadPc, outcome,
              dietData, weightData, endangermentData, loadingError, dataId, effectDeps,
              chart, draws>>

vars == <<arg, result, called, mounted, strictPending, cycle, isCancelled, fetch, join,
          loadPc, outcome, dietData, weightData, endangermentData, loadingError, dataId,
          effectDeps, chart, draws>>

NoValue == <<>>

Cycles == 1..MaxCycles

\* loadingError === null
NullError == "null"

\* ------------------------------------------------------------------------
\* What the row-fetch collaborator can deliver
\* ------------------------------------------------------------------------
Ox == <<"O", "x">>
Emu == <<"E", "m", "u">>

RawRow(name, speed, third) == [name |-> name, speed |-> speed, third |-> third]

\* Per dataset: a file with a valid and an invalid row, and a file whose rows are all invalid.
FilePool(dataset) ==
    CASE dataset = "diet" ->
           { << RawRow(Ox, <<"1", "0">>, <<" ", "H", "e", "r", "b", "i", "v", "o", "r", "e", " ">>),
                RawRow(Emu, <<"a", "b", "c">>, Omnivore) >>,
             << RawRow(<<" ", " ">>, <<"2", "0">>, Carnivore),
                RawRow(Ox, <<"5">>, <<"p", "l", "a", "n", "t">>) >> }
      [] dataset = "weight" ->
           { << RawRow(Ox, <<"1", "0">>, <<"5">>),
                RawRow(Emu, <<"1", "2", ".", "5">>, <<"0">>) >>,
             << RawRow(Ox, <<"1", "0">>, <<"-", "3">>) >> }
      [] dataset = "endangerment" ->
           { << RawRow(Ox, <<"1", "0">>, Extinct),
                RawRow(Emu, <<"2", "0">>, <<"e", "x", "t", "i", "n", "c", "t">>) >>,
             << RawRow(Ox, InfinityLiteral, Vulnerable) >> }

\* What a failed fetch rejects with: an Error, or a value that is no Error.
RejectionValues == { [isError |-> TRUE, message |-> "404 Not Found"],
                     [isError |-> FALSE, message |-> "aborted"] }

NoReason == [isError |-> FALSE, message |-> ""]

PendingFetch == [status |-> "pending", raw |-> <<>>, rows |-> <<>>, reason |-> NoReason]
IdleFetch == [status |-> "idle", raw |-> <<>>, rows |-> <<>>, reason |-> NoReason]
PendingJoin == [status |-> "pending", reason |-> NoReason]

\* The promises of a run whose results nothing refers to any more.
DroppedFetch == [status |-> "dropped", raw |-> <<>>, rows |-> <<>>, reason |-> NoReason]
DroppedJoin == [status |-> "dropped", reason |-> NoReason]

\* error instanceof Error ? error.message : "Unknown CSV loading error."
ErrorMessage(error) == IF error.isError THEN error.message ELSE "Unknown CSV loading error."

LoadingErrorText(error) == "Could not load chart data: " \o ErrorMessage(error)

\* ------------------------------------------------------------------------
\* Lifecycle of the component
\* ------------------------------------------------------------------------
InitLife ==
    /\ mounted = FALSE
    /\ strictPending = FALSE
    /\ cycle = 0
    /\ isCancelled = [c \in Cycles |-> FALSE]
    /\ fetch = [c \in Cycles |-> [d \in Datasets |-> IdleFetch]]
    /\ join = [c \in Cycles |-> PendingJoin]
    /\ loadPc = [c \in Cycles |-> "idle"]
    /\ outcome = [c \in Cycles |-> "none"]
    /\ dietData = <<>>
    /\ weightData = <<>>
    /\ endangermentData = <<>>
    /\ loadingError = NullError
    /\ dataId = [d \in Datasets |-> 0]
    /\ effectDeps = [d \in Datasets |-> -1]
    /\ chart = [d \in Datasets |-> EmptyContainer]
    /\ draws = [d \in Datasets |-> 0]

Init ==
    /\ arg = NoValue
    /\ result = NoValue
    /\ called = "none"
    /\ InitLife

\* The redraw effects of the last commit have all run.
EffectsFlushed == \A d \in Datasets : effectDeps[d] = dataId[d]

\* A load effect whose flag lives outside the effect and is never reset.
StartLoadSharedFlag(c, flags, fetches, joins) ==
    /\ cycle' = c
    /\ isCancelled' = [flags EXCEPT ![c] = \E k \in 1..(c - 1) : flags[k]]
    /\ fetch' = [fetches EXCEPT ![c] = [d \in Datasets |-> PendingFetch]]
    /\ join' = [joins EXCEPT ![c] = PendingJoin]
    /\ loadPc' = [loadPc EXCEPT ![c] = "await"]

\* The body of the load effect: a new closure with isCancelled = false, and
\* loadAllChartsData run up to its await, the three csv() calls issued.
StartLoad(c, flags, fetches, joins) ==
    /\ cycle' = c
    /\ isCancelled' = [flags EXCEPT ![c] = FALSE]
    /\ fetch' = [fetches EXCEPT ![c] = [d \in Datasets |-> PendingFetch]]
    /\ join' = [joins EXCEPT ![c] = PendingJoin]
    /\ loadPc' = [loadPc EXCEPT ![c] = "await"]

\* First render and commit of a new component instance, and its load effect.
\* The previous instance is gone, and with it the results of its finished runs.
\* strict: the build runs every effect twice on mount (reactStrictMode in development).
Mount(strict) ==
    /\ ~mounted
    /\ cycle + (IF strict THEN 2 ELSE 1) <= MaxCycles
    /\ mounted' = TRUE
    /\ strictPending' = strict
    /\ dietData' = <<>>
    /\ weightData' = <<>>
    /\ endangermentData' = <<>>
    /\ loadingError' = NullError
    /\ dataId' = [d \in Datasets |-> 0]
    /\ effectDeps' = [d \in Datasets |-> -1]
    /\ chart' = [d \in Datasets |-> EmptyContainer]
    /\ draws' = [d \in Datasets |-> 0]
    /\ StartLoad(cycle + 1, isCancelled,
                 [c \in Cycles |-> IF loadPc[c] = "done"
                                   THEN [d \in Datasets |-> DroppedFetch] ELSE fetch[c]],
                 [c \in Cycles |-> IF loadPc[c] = "done" THEN DroppedJoin ELSE join[c]])
    /\ UNCHANGED <<outcome, pureVars>>

\* The development double run: the cleanup of the load effect, then every
\* effect again, with the component state kept.
StrictModeReplay ==
    /\ mounted
    /\ strictPending
    /\ EffectsFlushed
    /\ strictPending' = FALSE
    /\ StartLoad(cycle + 1, [isCancelled EXCEPT ![cycle] = TRUE], fetch, join)
    /\ effectDeps' = [d \in Datasets |-> -1]
    /\ UNCHANGED <<mounted, outcome, dietData, weightData, endangermentData, loadingError,
                   dataId, chart, draws, pureVars>>

\* Teardown: the cleanup of the load effect sets the flag of the current run.
Unmount ==
    /\ mounted
    /\ ~strictPending
    /\ EffectsFlushed
    /\ mounted' = FALSE
    /\ isCancelled' = [isCancelled EXCEPT ![cycle] = TRUE]
    /\ UNCHANGED <<strictPending, cycle, fetch, join, loadPc, outcome, dietData, weightData,
                   endangermentData, loadingError, dataId, effectDeps, chart, draws, pureVars>>

\* A combinator that waits for all three to settle and then always fulfils
\* (Promise.allSettled in the place of Promise.all).
PromiseAllSettled(current, fetches, d) ==
    IF current.status # "pending" THEN current
    ELSE IF \A e \in Datasets : fetches[e].status \in {"fulfilled", "rejected"}
         THEN [status |-> "fulfilled", reason |-> NoReason]
    ELSE current

\* A combinator that waits for all three to settle and then rejects with the
\* reason of the rejection that came last.
PromiseAllLastRejection(current, fetches, d) ==
    IF current.status # "pending" THEN current
    ELSE IF \E e \in Datasets : fetches[e].status = "pending" THEN current
    ELSE IF \E e \in Datasets : fetches[e].status = "rejected"
         THEN [status |-> "rejected",
               reason |-> IF fetches[d].status = "rejected" THEN fetches[d].reason
                          ELSE fetches[CHOOSE e \in Datasets :
                                          fetches[e].status = "rejected"].reason]
    ELSE [status |-> "fulfilled", reason |-> NoReason]

\* Promise.all over the three csv() promises, after the promise of dataset d
\* settled: it rejects with the first rejection and fulfils once all fulfilled.
PromiseAll(current, fetches, d) ==
    IF current.status # "pending" THEN current
    ELSE IF fetches[d].status = "rejected"
         THEN [status |-> "rejected", reason |-> fetches[d].reason]
    ELSE IF \A e \in Datasets : fetches[e].status = "fulfilled"
         THEN [status |-> "fulfilled", reason |-> NoReason]
    ELSE current

\* loadAllChartsData without the isCancelled checks.
IgnoresCompletionNever(c) == FALSE

\* if (isCancelled) return; at both places of loadAllChartsData.
IgnoresCompletion(c) == isCancelled[c]

\* loadAllChartsData of run c after its await, Promise.all settled as joined.
\* The continuation runs in the microtask that follows the settling, so no
\* other event comes between the two.  A run that returns at
\* "if (isCancelled) return" leaves its results unreferenced.
Resume(c, joined, fetches) ==
    IF joined.status = "pending" \/ loadPc[c] = "done"
    THEN /\ fetch' = [fetch EXCEPT ![c] = fetches]
         /\ join' = [join EXCEPT ![c] = joined]
         /\ UNCHANGED <<loadPc, outcome, dietData, weightData, endangermentData,
                        loadingError, dataId>>
    ELSE /\ loadPc' = [loadPc EXCEPT ![c] = "done"]
         /\ IF IgnoresCompletion(c)
            THEN /\ outcome' = [outcome EXCEPT ![c] = "discarded"]
                 /\ fetch' = [fetch EXCEPT ![c] = [d \in Datasets |-> DroppedFetch]]
                 /\ join' = [join EXCEPT ![c] = DroppedJoin]
                 /\ UNCHANGED <<dietData, weightData, endangermentData, loadingError, dataId>>
            ELSE /\ fetch' = [fetch EXCEPT ![c] = fetches]
                 /\ join' = [join EXCEPT ![c] = joined]
                 /\ IF joined.status = "fulfilled"
                    THEN /\ outcome' = [outcome EXCEPT ![c] = "committed"]
                         /\ dietData' = fetches["diet"].rows
                         /\ weightData' = fetches["weight"].rows
                         /\ endangermentData' = fetches["endangerment"].rows
                         /\ loadingError' = NullError
                         /\ dataId' = [d \in Datasets |-> c]
                    ELSE /\ outcome' = [outcome EXCEPT ![c] = "failed"]
                         /\ loadingError' = LoadingErrorText(joined.reason)
                         /\ UNCHANGED <<dietData, weightData, endangermentData, dataId>>

\* The csv() promise of run c for dataset d settles, and what follows from it.
\* After Promise.all rejected, the promises still pending settle unobserved.
Settle(c, d, settled) ==
    /\ ~strictPending
    /\ EffectsFlushed
    /\ fetch[c][d].status = "pending"
    /\ LET fetches == [fetch[c] EXCEPT ![d] = settled]
       IN Resume(c, PromiseAll(join[c], fetches, d), fetches)
    /\ UNCHANGED <<mounted, strictPending, cycle, isCancelled, effectDeps, chart, draws,
                   pureVars>>

\* A csv() whose transform throws on a row it cannot validate.
FetchFulfilThrowing(c, d, file) ==
    IF \E i \in 1..Len(file) : RowTransform(d, file[i]) = Null
    THEN Settle(c, d, [status |-> "rejected", raw |-> file, rows |-> <<>>,
                       reason |-> [isError |-> TRUE, message |-> "invalid row"]])
    ELSE Settle(c, d, [status |-> "fulfilled", raw |-> file, rows |-> ParseCsv(d, file),
                       reason |-> NoReason])

\* A csv() call succeeds: the file is parsed row by row through the transform.
FetchFulfil(c, d, file) ==
    Settle(c, d, [status |-> "fulfilled", raw |-> file, rows |-> ParseCsv(d, file),
                  reason |-> NoReason])

\* A csv() call fails.
FetchReject(c, d, error) ==
    Settle(c, d, [status |-> "rejected", raw |-> <<>>, rows |-> <<>>, reason |-> error])

\* The order the redraw effects are declared in, which is the order they run in.
EffectOrder == <<"diet", "weight", "endangerment">>

EffectIndex(d) == CHOOSE i \in 1..3 : EffectOrder[i] = d

\* The state slice a redraw effect reads.
DataOf(d) ==
    CASE d = "diet" -> dietData
      [] d = "weight" -> weightData
      [] d = "endangerment" -> endangermentData

\* One effect that redraws all three charts.
RedrawTargetsAll(d) == Datasets

\* The containers a redraw effect of dataset d renders into.
RedrawTargets(d) == {d}

\* Every effect handing the diet slice to its render function.
RedrawInputDietOnly(d) == dietData

\* What the redraw effect of dataset d hands to its render function.
RedrawInput(d) == DataOf(d)

\* A redraw effect runs: its data array is not the one it last ran with.
Redraw(d) ==
    /\ mounted
    /\ effectDeps[d] # dataId[d]
    /\ \A e \in Datasets : EffectIndex(e) < EffectIndex(d) => effectDeps[e] = dataId[e]
    /\ effectDeps' = [effectDeps EXCEPT ![d] = dataId[d]]
    /\ chart' = [t \in Datasets |-> IF t \in RedrawTargets(d)
                                     THEN RenderInto(chart[t], t, RedrawInput(t))
                                     ELSE chart[t]]
    /\ draws' = [t \in Datasets |-> IF t \in RedrawTargets(d) THEN draws[t] + 1 ELSE draws[t]]
    /\ UNCHANGED <<mounted, strictPending, cycle, isCancelled, fetch, join, loadPc, outcome,
                   dietData, weightData, endangermentData, loadingError, dataId, pureVars>>

RedrawDiet == Redraw("diet")
RedrawWeight == Redraw("weight")
RedrawEndangerment == Redraw("endangerment")

Next ==
    \/ \E strict \in BOOLEAN : Mount(strict)
    \/ StrictModeReplay
    \/ Unmount
    \/ \E c \in Cycles, d \in Datasets : \E file \in FilePool(d) : FetchFulfil(c, d, file)
    \/ \E c \in Cycles, d \in Datasets : \E error \in RejectionValues : FetchReject(c, d, error)
    \/ RedrawDiet
    \/ RedrawWeight
    \/ RedrawEndangerment

Spec == Init /\ [][Next]_vars

\* ------------------------------------------------------------------------
\* Specification of the row transforms: one raw row is drawn, one transform
\* is applied to it.
\* ------------------------------------------------------------------------
RawNames == { <<"O", "x">>, <<" ", "O", "x", "\t">>, <<" ", " ">>, <<>>, Undefined }

RawSpeeds == { <<"1", "0">>, <<"1", "2", ".", "5">>, <<" ", "7", " ">>, <<"-", "3">>,
               <<>>, <<" ">>, <<"a", "b", "c">>, InfinityLiteral, Undefined }

RawDiets == { <<" ", "H", "e", "r", "b", "i", "v", "o", "r", "e", " ">>, Herbivore,
              <<"O", "M", "N", "I", "V", "O", "R", "E">>,
              <<"C", "a", "r", "n", "i", "v", "o", "r", "e", "\t">>,
              <<"p", "l", "a", "n", "t">>, <<"h", "e", "r", "b", "i", " ", "v", "o", "r", "e">>,
              <<>>, Undefined }

RawMasses == { <<"5">>, <<"0", ".", "5">>, <<"0", ".", "0", "5">>, <<"0">>, <<"-", "3">>, <<>>, <<"a", "b", "c">>,
               InfinityLiteral, Undefined }

RawStatuses == { Extinct, <<" ", "E", "x", "t", "i", "n", "c", "t", " ">>,
                 <<"e", "x", "t", "i", "n", "c", "t">>, LeastConcern,
                 <<"L", "e", "a", "s", "t", "C", "o", "n", "c", "e", "r", "n">>,
                 ExtinctInTheWild, Vulnerable, <<>>, Undefined }

RawThird(dataset) ==
    CASE dataset = "diet" -> RawDiets
      [] dataset = "weight" -> RawMasses
      [] dataset = "endangerment" -> RawStatuses

InitParse ==
    /\ \E dataset \in Datasets :
       \E name \in RawNames, speed \in RawSpeeds, third \in RawThird(dataset) :
          arg = [dataset |-> dataset, row |-> [name |-> name, speed |-> speed, third |-> third]]
    /\ result = NoValue
    /\ called = "none"
    /\ InitLife

ParseDietRow ==
    /\ called = "none"
    /\ arg.dataset = "diet"
    /\ result' = DietRowTransform(arg.row)
    /\ called' = "diet"
    /\ UNCHANGED <<arg, lifeVars>>

ParseWeightRow ==
    /\ called = "none"
    /\ arg.dataset = "weight"
    /\ result' = WeightRowTransform(arg.row)
    /\ called' = "weight"
    /\ UNCHANGED <<arg, lifeVars>>

ParseEndangermentRow ==
    /\ called = "none"
    /\ arg.dataset = "endangerment"
    /\ result' = EndangermentRowTransform(arg.row)
    /\ called' = "endangerment"
    /\ UNCHANGED <<arg, lifeVars>>

NextParse == ParseDietRow \/ ParseWeightRow \/ ParseEndangermentRow

SpecParse == InitParse /\ [][NextParse]_vars

\* ------------------------------------------------------------------------
\* Specification of the endangerment aggregation: a validated record set is
\* drawn in any order, the aggregation is applied to it.
\* ------------------------------------------------------------------------
AggSpeeds == {100, 400}

ValidEndangermentRecords ==
    { [name |-> <<"O", "x">>, speed |-> speed, endangerment |-> ENDANGERMENT_ORDER[i]] :
        speed \in AggSpeeds, i \in 1..Len(ENDANGERMENT_ORDER) }

SeqsUpTo(S, n) == UNION { [1..m -> S] : m \in 0..n }

InitAggregate ==
    /\ arg \in SeqsUpTo(ValidEndangermentRecords, MaxRecords)
    /\ result = NoValue
    /\ called = "none"
    /\ InitLife

AggregateEndangerment ==
    /\ called = "none"
    /\ arg # <<>>
    /\ LET chartData == EndangermentChartData(arg)
       IN result' = [chartData |-> chartData, xDomain |-> EndangermentXDomain(chartData)]
    /\ called' = "aggregate"
    /\ UNCHANGED <<arg, lifeVars>>

NextAggregate == AggregateEndangerment

SpecAggregate == InitAggregate /\ [][NextAggregate]_vars

\* ------------------------------------------------------------------------
\* Specification of the render functions: a validated record set of one
\* dataset is drawn, and the dataset's render function is called on its
\* container, more than once.  The container is as the component has it when
\* records arrive: empty, or holding the placeholder of the first draw.
\* ------------------------------------------------------------------------
DrawSpeeds == {-300, 0, 1000}

DrawMasses == {5, 500, 2000}

DrawStatuses == {LeastConcern, Vulnerable, Extinct}

DrawRecords(dataset) ==
    CASE dataset = "diet" ->
           { [name |-> Ox, speed |-> speed, diet |-> DIET_ORDER[i]] :
               speed \in DrawSpeeds, i \in 1..Len(DIET_ORDER) }
      [] dataset = "weight" ->
           { [name |-> Ox, speed |-> speed, bodyMass |-> mass] :
               speed \in DrawSpeeds, mass \in DrawMasses }
      [] dataset = "endangerment" ->
           { [name |-> Ox, speed |-> speed, endangerment |-> status] :
               speed \in DrawSpeeds, status \in DrawStatuses }

ClientWidths == {0, 900}

InitDraw ==
    /\ \E dataset \in Datasets :
       \E data \in SeqsUpTo(DrawRecords(dataset), MaxRecords) :
          arg = [dataset |-> dataset, data |-> data]
    /\ result = NoValue
    /\ called = "none"
    /\ mounted = TRUE
    /\ strictPending = FALSE
    /\ cycle = 0
    /\ isCancelled = [c \in Cycles |-> FALSE]
    /\ fetch = [c \in Cycles |-> [d \in Datasets |-> IdleFetch]]
    /\ join = [c \in Cycles |-> PendingJoin]
    /\ loadPc = [c \in Cycles |-> "idle"]
    /\ outcome = [c \in Cycles |-> "none"]
    /\ dietData = <<>>
    /\ weightData = <<>>
    /\ endangermentData = <<>>
    /\ loadingError = NullError
    /\ dataId = [d \in Datasets |-> 0]
    /\ effectDeps = [d \in Datasets |-> -1]
    /\ \E width \in ClientWidths, placeholder \in BOOLEAN :
          LET laidOut == [EmptyContainer EXCEPT !.clientWidth = width]
          IN chart = [d \in Datasets |->
                         IF placeholder THEN RenderInto(laidOut, d, <<>>) ELSE laidOut]
    /\ draws = [d \in Datasets |-> 0]

\* One call of the render function of dataset d on its container; result
\* keeps what the first call left.
Draw(d) ==
    /\ arg.dataset = d
    /\ draws[d] < MaxDraws
    /\ chart' = [chart EXCEPT ![d] = RenderInto(chart[d], d, arg.data)]
    /\ draws' = [draws EXCEPT ![d] = @ + 1]
    /\ result' = IF draws[d] = 0 THEN chart'[d] ELSE result
    /\ called' = "draw"
    /\ UNCHANGED <<arg, mounted, strictPending, cycle, isCancelled, fetch, join, loadPc, outcome,
                   dietData, weightData, endangermentData, loadingError, dataId, effectDeps>>

DrawDiet == Draw("diet")
DrawWeight == Draw("weight")
DrawEndangerment == Draw("endangerment")

NextDraw == DrawDiet \/ DrawWeight \/ DrawEndangerment

SpecDraw == InitDraw /\ [][NextDraw]_vars

\* ------------------------------------------------------------------------
\* Specification of the insights: the component holds three committed record
\* sets, and the memo computes its points from them.
\* ------------------------------------------------------------------------
Hen == <<"H", "e", "n">>
Yak == <<"Y", "a", "k">>

InitState(diet, weight, endangerment) ==
    /\ result = NoValue
    /\ called = "none"
    /\ arg = NoValue
    /\ mounted = TRUE
    /\ strictPending = FALSE
    /\ cycle = 0
    /\ isCancelled = [c \in Cycles |-> FALSE]
    /\ fetch = [c \in Cycles |-> [d \in Datasets |-> IdleFetch]]
    /\ join = [c \in Cycles |-> PendingJoin]
    /\ loadPc = [c \in Cycles |-> "idle"]
    /\ outcome = [c \in Cycles |-> "none"]
    /\ dietData = diet
    /\ weightData = weight
    /\ endangermentData = endangerment
    /\ loadingError = NullError
    /\ dataId = [d \in Datasets |-> 0]
    /\ effectDeps = [d \in Datasets |-> 0]
    /\ chart = [d \in Datasets |-> EmptyContainer]
    /\ draws = [d \in Datasets |-> 0]

AnalysisDietRecords ==
    { [name |-> Ox, speed |-> 1000, diet |-> Herbivore],
      [name |-> Emu, speed |-> 2000, diet |-> Omnivore],
      [name |-> Hen, speed |-> 1000, diet |-> Carnivore] }

AnalysisWeightRecords ==
    { [name |-> Ox, speed |-> 1000, bodyMass |-> 100000],
      [name |-> Hen, speed |-> 2000, bodyMass |-> 100] }

AnalysisEndangermentSets ==
    { <<>>,
      << [name |-> Ox, speed |-> 1000, endangerment |-> Vulnerable],
         [name |-> Emu, speed |-> 2000, endangerment |-> LeastConcern] >>,
      << [name |-> Ox, speed |-> 1000, endangerment |-> Extinct],
         [name |-> Emu, speed |-> 1000, endangerment |-> Vulnerable] >> }

InitAnalysis ==
    \E diet \in SeqsUpTo(AnalysisDietRecords, MaxRecords),
       weight \in SeqsUpTo(AnalysisWeightRecords, MaxRecords),
       endangerment \in AnalysisEndangermentSets :
          InitState(diet, weight, endangerment)

\* The memo runs on the committed record sets.
ComputeAnalysisPoints ==
    /\ called = "none"
    /\ result' = analysisPoints(dietData, weightData, endangermentData)
    /\ called' = "analysisPoints"
    /\ UNCHANGED <<arg, lifeVars>>

NextAnalysis == ComputeAnalysisPoints

SpecAnalysis == InitAnalysis /\ [][NextAnalysis]_vars

\* ------------------------------------------------------------------------
\* Specification of the weight insight: a validated weight record set whose
\* masses are powers of ten, in any order and with repeats; the weight branch
\* of the memo, or pearsonCorrelation alone, is applied to it.
\* ------------------------------------------------------------------------
WeightInsightRecords ==
    { [name |-> Ox,  speed |-> 10, bodyMass |-> 100],
      [name |-> Emu, speed |-> 40, bodyMass |-> 1000],
      [name |-> Hen, speed |-> 30, bodyMass |-> 10000],
      [name |-> Yak, speed |-> 20, bodyMass |-> 100000],
      [name |-> <<"A", "n", "t">>, speed |-> 20, bodyMass |-> 100],
      [name |-> <<"B", "a", "t">>, speed |-> 30, bodyMass |-> 1000],
      [name |-> <<"C", "a", "t">>, speed |-> 40, bodyMass |-> 10000],
      [name |-> <<"D", "o", "g">>, speed |-> 10, bodyMass |-> 100000] }

InitWeightInsight ==
    \E weight \in SeqsUpTo(WeightInsightRecords, MaxWeightRecords) :
       InitState(<<>>, weight, <<>>)

ComputeWeightInsight ==
    /\ called = "none"
    /\ result' = WeightInsight(weightData)
    /\ called' = "WeightInsight"
    /\ UNCHANGED <<arg, lifeVars>>

ComputeCorrelation ==
    /\ called = "none"
    /\ result' = massSpeedCorrelationOf(weightData)
    /\ called' = "pearsonCorrelation"
    /\ UNCHANGED <<arg, lifeVars>>

NextWeightInsight == ComputeWeightInsight \/ ComputeCorrelation

SpecWeightInsight == InitWeightInsight /\ [][NextWeightInsight]_vars

\* ------------------------------------------------------------------------
\* Specification of the endangerment insight: a validated endangerment record
\* set with up to MaxGroup records of each of three statuses, those of one
\* status at one speed; the endangerment branch of the memo is applied to it.
\* ------------------------------------------------------------------------
GroupSpeeds == {1000, 2000, 3000}

GroupOf(status, count, speed) ==
    [i \in 1..count |-> [name |-> Ox, speed |-> speed, endangerment |-> status]]

InitEndangermentInsight ==
    \E counts \in [DrawStatuses -> 0..MaxGroup], speeds \in [DrawStatuses -> GroupSpeeds] :
       InitState(<<>>, <<>>,
                 GroupOf(Extinct, counts[Extinct], speeds[Extinct])
                    \o GroupOf(LeastConcern, counts[LeastConcern], speeds[LeastConcern])
                    \o GroupOf(Vulnerable, counts[Vulnerable], speeds[Vulnerable]))

ComputeEndangermentInsight ==
    /\ called = "none"
    /\ result' = EndangermentInsight(endangermentData)
    /\ called' = "EndangermentInsight"
    /\ UNCHANGED <<arg, lifeVars>>

NextEndangermentInsight == ComputeEndangermentInsight

SpecEndangermentInsight == InitEndangermentInsight /\ [][NextEndangermentInsight]_vars

\* ------------------------------------------------------------------------
\* Specification of the two aggregations: on one committed record set, the
\* summaries the chart is drawn from and the summaries the insight is built
\* from are computed.
\* ------------------------------------------------------------------------
InitSummaries ==
    \/ \E diet \in SeqsUpTo(DrawRecords("diet"), MaxRecords) : InitState(diet, <<>>, <<>>)
    \/ \E endangerment \in SeqsUpTo(DrawRecords("endangerment"), MaxRecords) :
          InitState(<<>>, <<>>, endangerment)

\* The render functions and the memo run after the commit; both skip an
\* empty record set.
ComputeSummaries ==
    /\ called = "none"
    /\ result' = [dietChart |-> IF Len(dietData) = 0 THEN <<>>
                                ELSE DietChartSummaries(dietData),
                  dietInsight |-> IF Len(dietData) = 0 THEN <<>>
                                  ELSE DietInsightSummaries(dietData),
                  statusChart |-> IF Len(endangermentData) = 0 THEN <<>>
                                  ELSE EndangermentChartData(endangermentData),
                  statusInsight |-> IF Len(endangermentData) = 0 THEN <<>>
                                    ELSE StatusInsightSummaries(endangermentData)]
    /\ called' = "summaries"
    /\ UNCHANGED <<arg, lifeVars>>

NextSummaries == ComputeSummaries

SpecSummaries == InitSummaries /\ [][NextSummaries]_vars

\* ------------------------------------------------------------------------
\* Properties
\* ------------------------------------------------------------------------
\* Run c was started and its closure is not cancelled: it is the run of the
\* mounted component.
Live(c) == loadPc[c] # "idle" /\ ~isCancelled[c]

Settled(f) == f.status \in {"fulfilled", "rejected"}

AllSettled(c) == \A d \in Datasets : Settled(fetch[c][d])

\* The file of the dataset reached the client (the files of FilePool are not empty).
Delivered(f) == f.raw # <<>>

StateSlicesUnchanged ==
    /\ dietData' = dietData
    /\ weightData' = weightData
    /\ endangermentData' = endangermentData
    /\ loadingError' = loadingError

\* C1: once the cleanup of a run's load effect has set its cancellation flag,
\* no settling of that run's fetches and no completion of its load, whether it
\* resolves or rejects, changes dietData, weightData, endangermentData or
\* loadingError.
C1_StaleCompletionDiscarded ==
    [][\A c \in Cycles :
          (isCancelled[c] /\ loadPc[c] = "await" /\ (fetch'[c] # fetch[c] \/ loadPc'[c] = "done"))
             => StateSlicesUnchanged]_vars

\* A load completed after teardown and was dropped, the state as it was at teardown.
C1_Witness ==
    /\ ~mounted
    /\ \E c \in Cycles : isCancelled[c] /\ outcome[c] = "discarded"
    /\ dietData = <<>> /\ weightData = <<>> /\ endangermentData = <<>>
    /\ loadingError = NullError

\* C2: when exactly one of the three fetches of the mounted component's load
\* failed and the other two succeeded, the charts of the two datasets that
\* loaded show the rendering of their loaded records.
C2_PartialFailureStillRenders ==
    \A c \in Cycles :
       ( /\ mounted /\ Live(c) /\ ~strictPending /\ EffectsFlushed
         /\ Cardinality({d \in Datasets : fetch[c][d].status = "rejected"}) = 1
         /\ Cardinality({d \in Datasets : fetch[c][d].status = "fulfilled"}) = 2 )
       => \A d \in Datasets :
             fetch[c][d].status = "fulfilled" => chart[d] = Render(d, fetch[c][d].rows)

\* C3: a load of the mounted component whose three fetches have all settled has
\* ended, in Ready or in Failed and not both: Ready, with the three record sets
\* those of this load and loadingError null, exactly when all three fetches
\* succeeded; Failed, with loadingError a message, exactly when one failed.
C3_ReadyOrFailed ==
    \A c \in Cycles :
       (Live(c) /\ AllSettled(c)) =>
          /\ loadPc[c] = "done"
          /\ outcome[c] \in {"committed", "failed"}
          /\ outcome[c] = "committed" <=> \A d \in Datasets : fetch[c][d].status = "fulfilled"
          /\ outcome[c] = "failed" <=> \E d \in Datasets : fetch[c][d].status = "rejected"
          /\ outcome[c] = "committed" =>
                /\ dietData = fetch[c]["diet"].rows
                /\ weightData = fetch[c]["weight"].rows
                /\ endangermentData = fetch[c]["endangerment"].rows
                /\ loadingError = NullError
          /\ outcome[c] = "failed" => loadingError # NullError

\* A load of the mounted component ended in Ready with records loaded.
C3_Witness ==
    \E c \in Cycles :
       /\ mounted /\ Live(c) /\ AllSettled(c)
       /\ outcome[c] = "committed"
       /\ dietData # <<>>

\* C4: when the three files of the mounted component's load were all delivered,
\* whatever valid and invalid rows they hold, the load ended in Ready with
\* loadingError null, each record set has one record per row that passes
\* validation, and no record comes from a row that fails it.
C4_InvalidRowsNeverFail ==
    \A c \in Cycles :
       (Live(c) /\ \A d \in Datasets : Settled(fetch[c][d]) /\ Delivered(fetch[c][d])) =>
          /\ outcome[c] = "committed"
          /\ loadingError = NullError
          /\ \A d \in Datasets :
                LET raw == fetch[c][d].raw
                    data == DataOf(d)
                IN /\ Len(data) = Cardinality({i \in 1..Len(raw) : RowTransform(d, raw[i]) # Null})
                   /\ \A i \in 1..Len(raw) :
                         RowTransform(d, raw[i]) = Null =>
                            \A j \in 1..Len(data) : data[j].name # TrimmedField(raw[i].name)

\* A load whose files held invalid rows ended in Ready: one record set holds
\* the valid row of its file, another is empty because every row was invalid.
C4_Witness ==
    \E c \in Cycles :
       /\ mounted /\ Live(c) /\ outcome[c] = "committed"
       /\ Len(fetch[c]["diet"].raw) = 2 /\ Len(dietData) = 1
       /\ Len(fetch[c]["weight"].raw) = 1 /\ weightData = <<>>
       /\ loadingError = NullError

\* C5: a failed load does not stop later loads: after a load has ended in
\* Failed, every step that starts a load starts it in Loading for a mounted
\* component, with its flag clear, its three fetches pending and no error
\* shown; such a load can end in Ready (the witness).
C5_RetryAfterFailure ==
    [][((\E c \in Cycles : outcome[c] = "failed") /\ cycle' # cycle) =>
          /\ mounted'
          /\ loadPc'[cycle'] = "await"
          /\ ~isCancelled'[cycle']
          /\ \A d \in Datasets : fetch'[cycle'][d].status = "pending"
          /\ loadingError' = NullError]_vars

\* A load ended in Failed, and a later load ended in Ready with records and no error.
C5_Witness ==
    \E c1, c2 \in Cycles :
       /\ c1 < c2
       /\ outcome[c1] = "failed"
       /\ outcome[c2] = "committed"
       /\ mounted /\ Live(c2)
       /\ loadingError = NullError
       /\ dietData # <<>>

\* C6: a step of the mounted component that redraws the chart of a dataset is
\* a step whose dataset's record set changed since its last redraw, and it
\* leaves the other two containers as they were.
C6_RedrawScoped ==
    [][(mounted /\ mounted') =>
          \A d \in Datasets :
             draws'[d] # draws[d] =>
                /\ effectDeps[d] # dataId[d]
                /\ \A e \in Datasets \ {d} : chart'[e] = chart[e] /\ draws'[e] = draws[e]]_vars

\* The diet chart has been redrawn from the loaded records while the weight
\* container still holds what its first draw left.
C6_Witness ==
    /\ mounted
    /\ draws["diet"] = 2 /\ chart["diet"].children # <<>>
    /\ draws["weight"] = 1 /\ chart["weight"] = Render("weight", <<>>)
    /\ weightData # <<>>

\* The records the mounted component last committed for dataset d: those of
\* its load that ended in Ready, the initial empty set before that.
LatestCommitted(d) ==
    LET done == {c \in Cycles : outcome[c] = "committed" /\ join[c].status = "fulfilled"}
    IN IF done = {} THEN <<>>
       ELSE fetch[CHOOSE c \in done : \A k \in done : k <= c][d].rows

\* C7: every redraw of a chart leaves in its container the rendering of the
\* record set last committed for the chart's own dataset, never that of an
\* older or dropped load or of another dataset.
C7_RedrawUsesLatest ==
    [][\A d \in Datasets :
          (mounted /\ draws'[d] = draws[d] + 1) => chart'[d] = Render(d, LatestCommitted(d))]_vars

\* After a dropped load, a chart was redrawn from the records of the later load.
C7_Witness ==
    /\ mounted
    /\ \E c \in Cycles : outcome[c] = "discarded"
    /\ \E d \in Datasets :
          /\ draws[d] >= 2
          /\ LatestCommitted(d) # <<>>
          /\ chart[d] = Render(d, LatestCommitted(d))

\* C8: in all three parsers a row whose speed field is the empty string or the
\* text "abc" is dropped.
C8_NonFiniteSpeedDropped ==
    (called # "none" /\ arg.row.speed \in { <<>>, <<"a", "b", "c">> }) => result = Null

\* C9: in the diet parser a row with a valid name and speed is accepted iff its
\* diet field, trimmed and lowercased, is herbivore, omnivore or carnivore, and
\* the stored diet is that trimmed lowercase value; " Herbivore " is stored as
\* "herbivore".
C9_DietNormalised ==
    (called = "diet" /\ TrimmedField(arg.row.name) # <<>> /\ IsFinite(Number(arg.row.speed))) =>
       LET normal == IF arg.row.third = Undefined THEN <<>>
                     ELSE ToLowerCase(Trim(arg.row.third))
       IN /\ result # Null <=> normal \in {Herbivore, Omnivore, Carnivore}
          /\ result # Null => result.diet = normal
          /\ arg.row.third = <<" ", "H", "e", "r", "b", "i", "v", "o", "r", "e", " ">> =>
                result # Null /\ result.diet = <<"h", "e", "r", "b", "i", "v", "o", "r", "e">>

\* The row with diet " Herbivore " was parsed and stored as "herbivore".
C9_Witness ==
    /\ called = "diet"
    /\ arg.row.third = <<" ", "H", "e", "r", "b", "i", "v", "o", "r", "e", " ">>
    /\ result # Null
    /\ result.diet = Herbivore

\* Position of a status in the canonical severity order.
SeverityRank(status) == CHOOSE i \in 1..Len(ENDANGERMENT_ORDER) : ENDANGERMENT_ORDER[i] = status

\* C10: for a validated endangerment record set in any order, the chart rows
\* and the band-scale domain list exactly the statuses that have a record, each
\* once, in canonical severity order.
C10_CanonicalOrder ==
    called = "aggregate" =>
       LET rows == result.chartData
           domain == result.xDomain
       IN /\ Len(domain) = Len(rows)
          /\ \A i \in 1..Len(rows) : domain[i] = rows[i].status
          /\ {domain[i] : i \in 1..Len(domain)} = {arg[i].endangerment : i \in 1..Len(arg)}
          /\ \A i, j \in 1..Len(domain) :
                i < j => SeverityRank(domain[i]) < SeverityRank(domain[j])

\* Records given as Extinct, Least Concern, Vulnerable came out as
\* Least Concern, Vulnerable, Extinct.
C10_Witness ==
    /\ called = "aggregate"
    /\ Len(arg) = 3
    /\ arg[1].endangerment = Extinct
    /\ arg[2].endangerment = LeastConcern
    /\ arg[3].endangerment = Vulnerable
    /\ result.xDomain = <<LeastConcern, Vulnerable, Extinct>>

\* The container of the dataset under draw, and the svg a draw left in it.
Drawn == chart[arg.dataset]
DrawnSvg == Drawn.children[1]

\* C11: the diet aggregation yields one summary row per diet that has at least
\* one record and no row for a diet without records; so for the rows the diet
\* chart draws its bars, mean labels and sample-count labels from.
C11_DietSummariesOnlyPresent ==
    (called = "draw" /\ arg.dataset = "diet" /\ arg.data # <<>>) =>
       LET rows == DrawnSvg.bars
           present == {arg.data[i].diet : i \in 1..Len(arg.data)}
       IN /\ \A i \in 1..Len(rows) : rows[i].count >= 1
          /\ {rows[i].diet : i \in 1..Len(rows)} = present
          /\ Len(rows) = Cardinality(present)

\* C12: for a non-empty weight record set the x-domain before nicing has the
\* lower end max(least bodyMass, 0.1), which is above 0, and an upper end
\* above the lower end: ten times the lower end when the greatest bodyMass
\* does not exceed it; masses 5, 5, 5 give [5, 50].
C12_LogDomainSafe ==
    (called = "draw" /\ arg.dataset = "weight" /\ arg.data # <<>>) =>
       LET lower == DrawnSvg.xDomain[1]
           upper == DrawnSvg.xDomain[2]
           masses == {arg.data[i].bodyMass : i \in 1..Len(arg.data)}
       IN /\ \E m \in masses :
                /\ \A n \in masses : m <= n
                /\ lower = IF m >= 10 THEN m ELSE 10
          /\ lower > 0
          /\ upper > lower
          /\ (\A m \in masses : m <= lower) => upper = 10 * lower
          /\ masses = {500} => (lower = 500 /\ upper = 5000)

\* Three records of mass 5 were drawn on the domain [5, 50].
C12_Witness ==
    /\ called = "draw" /\ arg.dataset = "weight"
    /\ Len(arg.data) = 3
    /\ \A i \in 1..3 : arg.data[i].bodyMass = 500
    /\ DrawnSvg.xDomain = <<500, 5000>>

\* C13: a render function called again on its container with the same record
\* set and the same width leaves what its first call left: each call clears
\* the container first, and what it draws depends on the records alone.
C13_RedrawIdempotent ==
    draws[arg.dataset] >= 2 => Drawn = result

\* A diet chart with records was drawn twice and holds one svg.
C13_Witness ==
    /\ arg.dataset = "diet" /\ arg.data # <<>>
    /\ draws["diet"] = 2
    /\ Len(Drawn.children) = 1
    /\ Drawn = result

\* C14: after a draw with an empty record set the container holds only the
\* text "No valid speed vs <dataset> data available." and no svg; after a
\* draw with records the placeholder is not shown.
C14_PlaceholderWhenEmpty ==
    called = "draw" =>
       LET placeholder == "No valid speed vs " \o arg.dataset \o " data available."
       IN /\ arg.data = <<>> => (Drawn.textContent = placeholder /\ Drawn.children = <<>>)
          /\ arg.data # <<>> => (Drawn.textContent # placeholder /\ Drawn.children # <<>>)

\* The weight chart was drawn without records and shows its placeholder.
C14_Witness ==
    /\ called = "draw" /\ arg.dataset = "weight" /\ arg.data = <<>>
    /\ Drawn.textContent = "No valid speed vs weight data available."
    /\ Drawn.children = <<>>

\* The kinds of the points the memo returned.
PointKinds == {result[i].kind : i \in 1..Len(result)}

\* C15: the diet insight is emitted exactly when at least two diets have a
\* record (one diet alone gives none), and whether it is emitted or not, the
\* weight insight is emitted exactly when the weight set has two records or
\* more.
C15_DietInsightNeedsTwoGroups ==
    called = "analysisPoints" =>
       /\ "Diet" \in PointKinds <=>
             Cardinality({dietData[i].diet : i \in 1..Len(dietData)}) >= 2
       /\ "Weight" \in PointKinds <=> Len(weightData) >= 2

\* Records of one diet only and two weight records: no diet insight, and the
\* weight insight is there.
C15_Witness ==
    /\ called = "analysisPoints"
    /\ Len(dietData) >= 2
    /\ Cardinality({dietData[i].diet : i \in 1..Len(dietData)}) = 1
    /\ Len(weightData) = 2
    /\ "Diet" \notin PointKinds
    /\ "Weight" \in PointKinds

\* Index of the first record, in record order, that attains the greatest
\* speed, the least bodyMass, the greatest bodyMass.
FirstFastest ==
    CHOOSE i \in 1..Len(weightData) :
       /\ \A j \in 1..Len(weightData) : weightData[j].speed <= weightData[i].speed
       /\ \A j \in 1..(i - 1) : weightData[j].speed < weightData[i].speed

FirstLightest ==
    CHOOSE i \in 1..Len(weightData) :
       /\ \A j \in 1..Len(weightData) : weightData[i].bodyMass <= weightData[j].bodyMass
       /\ \A j \in 1..(i - 1) : weightData[i].bodyMass < weightData[j].bodyMass

FirstHeaviest ==
    CHOOSE i \in 1..Len(weightData) :
       /\ \A j \in 1..Len(weightData) : weightData[j].bodyMass <= weightData[i].bodyMass
       /\ \A j \in 1..(i - 1) : weightData[j].bodyMass < weightData[i].bodyMass

\* C16: the fastest, lightest and heaviest species of the weight insight are
\* each the first record, in record order, that attains the greatest speed,
\* the least bodyMass and the greatest bodyMass: on a tie the earlier wins.
C16_FirstExtremumWins ==
    (called = "WeightInsight" /\ result # <<>>) =>
       /\ result[1].fastest = weightData[FirstFastest]
       /\ result[1].lightest = weightData[FirstLightest]
       /\ result[1].heaviest = weightData[FirstHeaviest]

\* Two species share the greatest speed and the insight names the earlier.
C16_Witness ==
    /\ called = "WeightInsight" /\ result # <<>>
    /\ \E i, j \in 1..Len(weightData) :
          /\ i < j
          /\ weightData[i].speed = weightData[j].speed
          /\ weightData[i].name # weightData[j].name
          /\ \A k \in 1..Len(weightData) : weightData[k].speed <= weightData[i].speed
          /\ \A k \in 1..(i - 1) : weightData[k].speed < weightData[i].speed
          /\ result[1].fastest.name = weightData[i].name

\* C17: the trend label depends on the correlation r alone: undefined gives
\* "no measurable mass-speed trend", r > 0.2 "a weak positive mass-speed
\* trend", r < -0.2 "a weak negative mass-speed trend", anything else, 0.2
\* and -0.2 themselves included, "a very weak mass-speed trend"; and the
\* value of r is appended exactly when r is defined.
C17_TrendLabel ==
    (called = "WeightInsight" /\ result # <<>>) =>
       LET r == massSpeedCorrelationOf(weightData)
           label == result[1].trendLabel
           text == result[1].correlationText
           strong == 25 * r.square.num > r.square.den
       IN /\ text.shown <=> r.defined
          /\ text.shown => text.r = r
          /\ ~r.defined => label = "no measurable mass-speed trend"
          /\ (r.defined /\ r.sign = 1 /\ strong) => label = "a weak positive mass-speed trend"
          /\ (r.defined /\ r.sign = -1 /\ strong) => label = "a weak negative mass-speed trend"
          /\ (r.defined /\ ~(r.sign # 0 /\ strong)) => label = "a very weak mass-speed trend"

\* A record set whose correlation is 0.2 exactly is labelled very weak, with
\* the value shown.
C17_Witness ==
    /\ called = "WeightInsight" /\ result # <<>>
    /\ result[1].correlationText.shown
    /\ result[1].correlationText.r.sign = 1
    /\ result[1].correlationText.r.square = [num |-> 1, den |-> 25]
    /\ result[1].trendLabel = "a very weak mass-speed trend"

\* C18: the correlation of log10(bodyMass) with speed is undefined exactly
\* when there are fewer than two records or one of the two variables has
\* zero variance; when defined it lies in [-1, 1], and it is 1 when speed is
\* an increasing affine function of log10(bodyMass).
C18_CorrelationDefined ==
    called = "pearsonCorrelation" =>
       LET n == Len(weightData)
           massesEqual == \A i, j \in 1..n : weightData[i].bodyMass = weightData[j].bodyMass
           speedsEqual == \A i, j \in 1..n : weightData[i].speed = weightData[j].speed
           x(i) == Log10(weightData[i].bodyMass)
           affine == \A i, j, k, l \in 1..n :
                        (weightData[i].speed - weightData[j].speed) * (x(k) - x(l))
                           = (weightData[k].speed - weightData[l].speed) * (x(i) - x(j))
           increasing == \E i, j \in 1..n :
                            x(i) < x(j) /\ weightData[i].speed < weightData[j].speed
       IN /\ ~result.defined <=> (n < 2 \/ massesEqual \/ speedsEqual)
          /\ result.defined => result.square.num <= result.square.den
          /\ (n >= 2 /\ affine /\ increasing) =>
                (result.defined /\ result.sign = 1 /\ result.square = [num |-> 1, den |-> 1])

\* Records of one status, their sum of speeds, and a <= between the means of
\* two statuses that have records.
StatusCount(status) ==
    Cardinality({i \in 1..Len(endangermentData) : endangermentData[i].endangerment = status})

StatusSum(status) ==
    SumSpeed(SelectSeq(endangermentData, LAMBDA datum : datum.endangerment = status))

MeanAtMost(a, b) == StatusSum(a) * StatusCount(b) <= StatusSum(b) * StatusCount(a)

\* C19: the endangerment insight is computed over the present statuses with
\* at least 5 records when there are two or more of those, and over all
\* present statuses otherwise; it is emitted exactly when the chosen set has
\* two statuses or more, and names a status of greatest mean speed and one of
\* least mean speed within the chosen set.
C19_PrimaryStatuses ==
    called = "EndangermentInsight" =>
       LET statuses == {ENDANGERMENT_ORDER[i] : i \in 1..Len(ENDANGERMENT_ORDER)}
           present == {status \in statuses : StatusCount(status) >= 1}
           primary == {status \in statuses : StatusCount(status) >= 5}
           chosen == IF Cardinality(primary) >= 2 THEN primary ELSE present
       IN /\ result # <<>> <=> Cardinality(chosen) >= 2
          /\ result # <<>> =>
                /\ result[1].fastest.status \in chosen
                /\ result[1].slowest.status \in chosen
                /\ \A status \in chosen :
                      /\ MeanAtMost(status, result[1].fastest.status)
                      /\ MeanAtMost(result[1].slowest.status, status)

\* Two statuses have 5 records or more; the third has fewer and the greatest
\* mean, and is not the one the insight names as fastest.
C19_Witness ==
    /\ called = "EndangermentInsight" /\ result # <<>>
    /\ StatusCount(LeastConcern) >= 5
    /\ StatusCount(Vulnerable) >= 5
    /\ StatusCount(Extinct) \in 1..4
    /\ ~MeanAtMost(Extinct, LeastConcern)
    /\ ~MeanAtMost(Extinct, Vulnerable)
    /\ result[1].fastest.status # Extinct

\* The datasets whose fetch of run c has failed.
Rejected(c) == {d \in Datasets : fetch[c][d].status = "rejected"}

\* C20 as stated: when more than one fetch of the mounted component's load has
\* failed, the message shown is that of the latest failure.  With two failures
\* of different reasons, the earlier is the one Promise.all rejected with.
C20_LatestFailureShown ==
    \A c \in Cycles : \A d1, d2 \in Datasets :
       ( /\ mounted /\ Live(c)
         /\ Rejected(c) = {d1, d2}
         /\ fetch[c][d1].reason = join[c].reason
         /\ fetch[c][d2].reason # fetch[c][d1].reason )
       => loadingError = "Could not load chart data: " \o ErrorMessage(fetch[c][d2].reason)

\* C20, amended: when more than one fetch of the mounted component's load
\* fails, one message is shown, that of the first failure: the step of the
\* first failure shows its message, and the step of a later failure leaves
\* the message as it is.
C20_FirstFailureShown ==
    [][\A c \in Cycles : \A d \in Datasets :
          ( /\ Live(c)
            /\ fetch[c][d].status = "pending"
            /\ fetch'[c][d].status = "rejected" )
          => IF Rejected(c) = {}
             THEN loadingError' = "Could not load chart data: "
                                     \o ErrorMessage(fetch'[c][d].reason)
             ELSE loadingError' = loadingError]_vars

\* Two fetches failed with different reasons and the message shown is that of
\* the first.
C20_Witness ==
    \E c \in Cycles : \E d1, d2 \in Datasets :
       /\ mounted /\ Live(c)
       /\ Rejected(c) = {d1, d2}
       /\ fetch[c][d1].reason = join[c].reason
       /\ fetch[c][d2].reason # fetch[c][d1].reason
       /\ loadingError = "Could not load chart data: " \o ErrorMessage(fetch[c][d1].reason)

\* The fetches of run c that settle in the step.
SettlingNow(c) ==
    {d \in Datasets : fetch[c][d].status = "pending" /\ Settled(fetch'[c][d])}

\* C21: the step that starts a load issues its three fetches together, all
\* pending; a load of a run that is not cancelled leaves Loading in exactly the
\* steps in which one of its fetches fails, whatever is still pending, or the
\* last of the three succeeds; no other step (no timeout) ends it.
C21_JoinedFetches ==
    [][\A c \in Cycles :
          /\ (loadPc[c] = "idle" /\ loadPc'[c] # "idle") =>
                \A d \in Datasets : fetch'[c][d].status = "pending"
          /\ (~isCancelled[c] /\ loadPc[c] = "await") =>
                (loadPc'[c] = "done" <=>
                   \/ \E d \in SettlingNow(c) : fetch'[c][d].status = "rejected"
                   \/ /\ SettlingNow(c) # {}
                      /\ \A d \in Datasets : fetch'[c][d].status = "fulfilled")]_vars

\* The load of the mounted component ended in Failed on its first failure,
\* with another of its fetches still pending.
C21_Witness ==
    \E c \in Cycles :
       /\ mounted /\ Live(c)
       /\ outcome[c] = "failed"
       /\ \E d \in Datasets : fetch[c][d].status = "pending"
       /\ \E d \in Datasets : fetch[c][d].status = "fulfilled"

\* A completion of run c writes the state slices in the step.
Writes(c) == outcome[c] = "none" /\ outcome'[c] \in {"committed", "failed"}

RawOf(d) == fetch[dataId[d]][d].raw

\* The record comes from a row of the file whose trimmed name is the record's
\* name and whose speed field is a finite number, the record's speed.
FromFiniteRow(d, rec, Third(_)) ==
    \E j \in 1..Len(RawOf(d)) :
       LET row == RawOf(d)[j]
       IN /\ Trim(row.name) = rec.name
          /\ IsFinite(Number(row.speed)) /\ Number(row.speed).v = rec.speed
          /\ Third(row)

\* C23: in every state, every record of dietData has a non-empty trimmed name,
\* a finite speed and a diet among herbivore, omnivore, carnivore; every record
\* of weightData a non-empty trimmed name, a finite speed and a finite
\* bodyMass > 0; every record of endangermentData a non-empty trimmed name, a
\* finite speed and, as status, the trimmed field, equal to one of the nine
\* canonical strings.
C23_RecordsValid ==
    /\ \A i \in 1..Len(dietData) :
          LET rec == dietData[i]
          IN /\ rec.name # <<>> /\ Trim(rec.name) = rec.name
             /\ rec.diet \in {Herbivore, Omnivore, Carnivore}
             /\ FromFiniteRow("diet", rec, LAMBDA row : TRUE)
    /\ \A i \in 1..Len(weightData) :
          LET rec == weightData[i]
          IN /\ rec.name # <<>> /\ Trim(rec.name) = rec.name
             /\ rec.bodyMass > 0
             /\ FromFiniteRow("weight", rec,
                              LAMBDA row : /\ IsFinite(Number(row.third))
                                           /\ Number(row.third).v = rec.bodyMass)
    /\ \A i \in 1..Len(endangermentData) :
          LET rec == endangermentData[i]
          IN /\ rec.name # <<>> /\ Trim(rec.name) = rec.name
             /\ \E k \in 1..9 : ENDANGERMENT_ORDER[k] = rec.endangerment
             /\ FromFiniteRow("endangerment", rec, LAMBDA row : Trim(row.third) = rec.endangerment)

\* The three record sets are loaded, each from a file that also held a row
\* that fails validation.
C23_Witness ==
    /\ mounted
    /\ \A d \in Datasets :
          /\ DataOf(d) # <<>>
          /\ Len(DataOf(d)) < Len(RawOf(d))

\* Sum and count of the speeds of the drawn records with the given status.
DrawnStatusSum(status) ==
    SumSpeed(SelectSeq(arg.data, LAMBDA datum : datum.endangerment = status))

DrawnStatusCount(status) ==
    Len(SelectSeq(arg.data, LAMBDA datum : datum.endangerment = status))

\* The fraction u is max(factor * top, 1), with top = sum / count in
\* hundredths and factor in hundredths.
IsFlooredMax(u, factor, sum, count) ==
    IF factor * sum > 100 * 100 * count
    THEN u.num * 100 * count = factor * sum * u.den
    ELSE u.num = 100 * u.den

\* C24: a chart drawn from a non-empty record set has the y-domain [0, U]
\* before nicing, with U >= 1: U = max(1.1 * greatest speed, 1) in the diet and
\* weight charts and max(1.12 * greatest averageSpeed, 1) in the endangerment
\* chart; with all speeds 0 the chart is drawn, on [0, 1], and no placeholder
\* or error takes its place.
C24_YDomainFloor ==
    (called = "draw" /\ arg.data # <<>>) =>
       /\ Drawn.children # <<>>
       /\ LET lower == DrawnSvg.yDomain[1]
              U == DrawnSvg.yDomain[2]
              speeds == {arg.data[i].speed : i \in 1..Len(arg.data)}
              present == {arg.data[i].endangerment : i \in 1..Len(arg.data)}
          IN /\ lower.num = 0
             /\ U.den > 0 /\ U.num >= 100 * U.den
             /\ arg.dataset \in {"diet", "weight"} =>
                   \E top \in speeds :
                      /\ \A v \in speeds : v <= top
                      /\ IsFlooredMax(U, 110, top, 1)
             /\ arg.dataset = "endangerment" =>
                   \E s \in present :
                      /\ \A t \in present :
                            DrawnStatusSum(t) * DrawnStatusCount(s)
                               <= DrawnStatusSum(s) * DrawnStatusCount(t)
                      /\ IsFlooredMax(U, 112, DrawnStatusSum(s), DrawnStatusCount(s))
             /\ speeds = {0} => U.num = 100 * U.den

\* A chart whose records all have speed 0 was drawn on the y-domain [0, 1].
C24_Witness ==
    /\ called = "draw" /\ arg.data # <<>>
    /\ \A i \in 1..Len(arg.data) : arg.data[i].speed = 0
    /\ Drawn.children # <<>>
    /\ DrawnSvg.yDomain = <<Quotient(0, 1), Quotient(100, 1)>>

\* C25: the fill of an endangerment bar is the palette entry at the position
\* its status has in the canonical order of the nine statuses, whichever other
\* statuses have a bar.
C25_ColourBySeverity ==
    (called = "draw" /\ arg.dataset = "endangerment" /\ arg.data # <<>>) =>
       LET bars == DrawnSvg.bars
           fills == DrawnSvg.fills
       IN /\ Len(fills) = Len(bars)
          /\ \A i \in 1..Len(bars) :
                \E k \in 1..9 :
                   /\ ENDANGERMENT_ORDER[k] = bars[i].status
                   /\ fills[i] = ENDANGERMENT_COLOR_RANGE[k]

\* Extinct is the second of two bars drawn and has the ninth colour.
C25_Witness ==
    /\ called = "draw" /\ arg.dataset = "endangerment"
    /\ Len(Drawn.children) = 1
    /\ Len(DrawnSvg.bars) = 2
    /\ DrawnSvg.bars[2].status = Extinct
    /\ DrawnSvg.fills[2] = "#7f1d1d"

\* C26: while the component is mounted, loadingError is a message only if the
\* three record sets are empty, and then no insight is computed: the error
\* banner is never shown together with loaded records.
C26_ErrorExcludesData ==
    (mounted /\ loadingError # NullError) =>
       /\ dietData = <<>>
       /\ weightData = <<>>
       /\ endangermentData = <<>>
       /\ analysisPoints(dietData, weightData, endangermentData) = <<>>

\* The error banner is shown, and the records a fetch of the failed load
\* delivered are in no record set.
C26_Witness ==
    /\ mounted
    /\ loadingError # NullError
    /\ dietData = <<>> /\ weightData = <<>> /\ endangermentData = <<>>
    /\ \E c \in Cycles, d \in Datasets :
          Live(c) /\ outcome[c] = "failed" /\ fetch[c][d].rows # <<>>

\* The rows of a summary list that stand for a group with records, as the
\* set of their <<group, count, averageSpeed>>.
DietRowsWithRecords(summaries) ==
    {<<summaries[i].diet, summaries[i].count, summaries[i].averageSpeed>> :
        i \in {j \in 1..Len(summaries) : summaries[j].count >= 1}}

StatusRowsWithRecords(summaries) ==
    {<<summaries[i].status, summaries[i].count, summaries[i].averageSpeed>> :
        i \in {j \in 1..Len(summaries) : summaries[j].count >= 1}}

\* C27: for one record set, the chart aggregation and the insight
\* aggregation give, for every group with at least one record, the same
\* count and the same averageSpeed, in the diet chart and in the
\* endangerment chart; every such group has a row on both sides.
C27_ChartAndInsightAgree ==
    called = "summaries" =>
       /\ DietRowsWithRecords(result.dietChart) = DietRowsWithRecords(result.dietInsight)
       /\ StatusRowsWithRecords(result.statusChart) = StatusRowsWithRecords(result.statusInsight)
       /\ Cardinality(DietRowsWithRecords(result.dietInsight))
             = Cardinality({dietData[i].diet : i \in 1..Len(dietData)})
       /\ Cardinality(StatusRowsWithRecords(result.statusInsight))
             = Cardinality({endangermentData[i].endangerment : i \in 1..Len(endangermentData)})

\* Both aggregations ran on an endangerment set with a group of two records
\* of different speeds, and gave that group the same rows.
C27_Witness ==
    /\ called = "summaries"
    /\ \E i \in 1..Len(result.statusChart) :
          /\ result.statusChart[i].count = 2
          /\ result.statusChart[i].averageSpeed = Quotient(1000 - 300, 2)
          /\ \E j \in 1..Len(result.statusInsight) :
                result.statusInsight[j] = result.statusChart[i]

\* The group a summary row stands for.
GroupKey(point, row) == IF point.kind = "Diet" THEN row.diet ELSE row.status

\* C28: in every diet or endangerment insight the memo returns, the fastest
\* and the slowest group are two different groups, and the gap is the fastest
\* mean minus the slowest mean and is not negative; it is 0 when the two
\* means are equal.
C28_GapNotNegative ==
    called = "analysisPoints" =>
       \A i \in 1..Len(result) :
          result[i].kind \in {"Diet", "Endangerment"} =>
             LET point == result[i]
                 fast == point.fastest.averageSpeed
                 slow == point.slowest.averageSpeed
                 gap == point.speedGap
             IN /\ GroupKey(point, point.fastest) # GroupKey(point, point.slowest)
                /\ gap.den > 0 /\ gap.num >= 0
                /\ gap.num * fast.den * slow.den
                      = (fast.num * slow.den - slow.num * fast.den) * gap.den

\* A diet insight and an endangerment insight were returned, each for groups
\* of equal means: two different groups and a gap of 0.
C28_Witness ==
    /\ called = "analysisPoints"
    /\ \E i, j \in 1..Len(result) :
          /\ result[i].kind = "Diet" /\ result[j].kind = "Endangerment"
          /\ result[i].speedGap.num = 0 /\ result[j].speedGap.num = 0
          /\ result[i].fastest.diet # result[i].slowest.diet
          /\ result[j].fastest.status # result[j].slowest.status

\* C29: in a weight chart drawn from a non-empty validated record set, every
\* record's bodyMass lies within the domain of the x scale, from its lower to
\* its upper end, so every point is drawn within the horizontal range of the
\* plot.  The domain is taken after nicing, the widest the scale has.
C29_MassWithinDomain ==
    (called = "draw" /\ arg.dataset = "weight" /\ arg.data # <<>>) =>
       \A i \in 1..Len(DrawnSvg.points) :
          /\ DrawnSvg.xNice[1] <= DrawnSvg.points[i].cx
          /\ DrawnSvg.points[i].cx <= DrawnSvg.xNice[2]

\* C30: in a diet or endangerment chart drawn from a non-empty validated
\* record set, every bar's averageSpeed lies within the y-domain [0, U], so
\* the height of every bar is at least 0.
C30_BarWithinDomain ==
    (called = "draw" /\ arg.dataset \in {"diet", "endangerment"} /\ arg.data # <<>>) =>
       LET lower == DrawnSvg.yDomain[1]
           U == DrawnSvg.yDomain[2]
       IN \A i \in 1..Len(DrawnSvg.bars) :
             LET mean == DrawnSvg.bars[i].averageSpeed
             IN /\ lower.num * mean.den <= mean.num * lower.den
                /\ mean.num * U.den <= U.num * mean.den

====
